---- MODULE Spec2Model ----
(***************************************************************************)
(* page_alloc_bench: the kernel module (kmod/page_alloc_bench.c) that      *)
(* tracks allocated page blocks on per-CPU lists, the kallocfree workload  *)
(* (userspace/workload/kallocfree) that drives it, and the user-space      *)
(* parts around it: linux, sampling, findlimit and the composite.          *)
(*                                                                         *)
(* SpecKmod     the module under callers that keep to the protocol (every  *)
(*              FREE_PAGE names an id user space holds), at the grain of   *)
(*              the lock operations.                                       *)
(* SpecKmodAny  SpecKmod plus FREE_PAGE on ids user space does not hold.   *)
(* SpecWork     one Run of the kallocfree workload: the per-CPU workers,   *)
(*              the errgroup, the context and AwaitSteadyState, with the   *)
(*              module seen through the results of its ioctls.             *)
(* SpecWorkFair SpecWork with every worker, and Run's Wait, scheduled      *)
(*              fairly.                                                    *)
(* SpecWorkLegacy SpecWork with --kmod-legacy-free-page, with and without  *)
(*              latency measurement.                                       *)
(* SpecWorkSteady SpecWork with the workers and the caller of              *)
(*              AwaitSteadyState scheduled fairly and the targets drawn    *)
(*              fairly.                                                    *)
(* SpecWorkMeasured SpecWork with latency measurement on.                  *)
(* SpecCpulist  linux.CPUMaskFromString on every short text.               *)
(* SpecNuma     kallocfree.New on machines of a few NUMA nodes, and the    *)
(*              NUMA counters of the allocations that follow.              *)
(* SpecSampling sampling.Reservoir in two runs given the same data.        *)
(* SpecFindlimit findlimit.Run for every short output and every end of its *)
(*              child.                                                     *)
(* SpecComposite the composite's run: idle findlimit runs, the kallocfree  *)
(*              workload, antagonised findlimit runs, under a deadline.    *)
(* SpecBackoff  one call of allocPageOnCPU by a runCPU, against a          *)
(*              kmod.AllocPage whose errors wrap their errno.              *)
(* SpecBackoffFair SpecBackoff with the worker's goroutine scheduled       *)
(*              fairly; timers and cancellation are left to happen or not. *)
(* SpecLatency  the timed allocator call of one ALLOC_PAGE or FREE_PAGE     *)
(*              against a monotonic clock.                                 *)
(* SpecBurst    one runCPU with every page handle told apart, from its     *)
(*              first burst to the frees of its deferred function.         *)
(***************************************************************************)
EXTENDS Integers, Sequences, FiniteSets, TLC

\* ---------------------------------------------------------------- bounds
NumCPUs == 2
\* ioctls that can be in flight at once
NumCallers == 2
\* blocks the page allocator can hand out
MaxPages == 2
\* callers ask for order 0 or order MaxOrder
MaxOrder == 1
\* characters of a cpulist text
MaxLen == 4
\* NUMA nodes of a machine
MaxNodes == 2
\* capacity of a Reservoir
MaxCap == 2
\* data passed to a Reservoir
MaxStream == 4
\* values of the clock when a Reservoir is made
MaxTime == 3
\* characters the findlimit child writes to its stdout
MaxOut == 4
\* the composite's --iterations
Iterations == 2

\* while the workers' context is live, ALLOC_PAGE is called only as long as
\* pagesAllocated is below MaxAllocs
MaxAllocs == 4
\* system calls of the workload that fail in one run
MaxFaults == 2
\* consecutive ENOMEM failures one allocPageOnCPU call can see
MaxRetries == 60
\* The monotonic clock is followed for MaxClock nanoseconds.
MaxClock == 5
\* The findlimit child maps regions of 2^MmapShift pages (the source's
\* mmapSize is 8 GiB, a power of two), MaxMaps of them are followed, and a
\* page has pageSize bytes (os.Getpagesize(), scaled down).
MmapShift == 2
MaxMaps == 2
pageSize == 2
\* runCPU's `middle := 1000`, scaled down
Middle == 2
\* the modulus of runCPU's `random.Uint64() % 1000`, scaled down; as in the
\* source, Middle - (RandMod - 1) is 1, so no target is below one page
RandMod == 2
\* bits of a word of a CPUMask ([]uint64)
WordBits == 64
\* the number of values of rand.Int(), scaled down from 2^63
RandSpan == 8

CPUs == 1..NumCPUs
\* struct page pointers the allocator can hand out (block heads).
PageIds == 1..MaxPages
\* A pointer value for which pfn_valid(page_to_pfn(page)) is false.
BadPfn == 0
Ids == PageIds \cup {BadPfn}
Orders == {0, MaxOrder}
\* "not an alloced_pages pointer" (never-written or scrubbed memory).
NoList == 0

VARIABLES
    alloced_pages,  \* per CPU: [lock: held or not, pages: the blocks linked on the list]
    ap,             \* per block: struct alloced_page stored in the block [aps, order]
    owned,          \* per block: pages of the block the module got from alloc_pages
                    \* and has not given back to the allocator
    call,           \* per block: the ioctl in flight that works on it [pc, cpu, modified]
    last,           \* the ioctl that returned last: what it was, whether user space held
                    \* the id it named, what it returned, whether it changed a list
    userIds,        \* ids user space holds: returned by ALLOC_PAGE, not yet passed to FREE_PAGE
    procfs_file,    \* the procfs node exists
    modState,       \* "loaded", "exiting" (pab_exit running), "unloaded"
    kernelFault     \* "none", or what a FREE_PAGE on memory that is no alloced_page did

kvars == <<alloced_pages, ap, owned, call, last, userIds, procfs_file, modState, kernelFault>>

VARIABLES
    ctxCancelled,        \* the context given to Run and AwaitSteadyState is cancelled
    egCancelled,         \* the errgroup's context, the one the workers see, is cancelled
    egErr,               \* the first error a worker returned to the errgroup
    runCPU,              \* per worker: [pc, pages, target, steady, err]
    stats,               \* [pagesAllocated, pagesFreed, allocFailures, freeLatencies];
                         \* freeLatencies counts the Adds to the free-latency reservoirs
    steadyStateThreads,
    steadyStateReached,  \* the channel is closed
    freeErrorLogged,
    runRet,              \* "running", or how Run returned: "result", "error"
    result,              \* the *Result Run returned (NilResult until it returns one)
    awaitRet,            \* "waiting", or the case AwaitSteadyState's select took
    kOutstanding,        \* the number of blocks the module has allocated and not freed
    everMiddle,          \* history: the worker has held exactly Middle pages
    abandoned,           \* history: positions of the worker's pages when it returned that
                         \* its deferred function did not pass to FreePage
    enomemSeen,          \* history: ALLOC_PAGE ioctls that returned ENOMEM
    ioctlFailed,         \* history: ioctls that returned an error
    pinFailed,           \* history: sched_setaffinity calls that returned an error
    affinity,            \* per worker: the CPUs its OS thread may run on
    flags,               \* [legacyFreePageInterface, measureLatencies]
    freeIoctls,          \* history: the <<cmd, arg>> of the free ioctls issued
    latencyWriters       \* history, per latency reservoir: the workers that called its Add

wvars == <<ctxCancelled, egCancelled, egErr, runCPU, stats, steadyStateThreads,
           steadyStateReached, freeErrorLogged, runRet, result, awaitRet, kOutstanding,
           everMiddle, abandoned, enomemSeen, ioctlFailed, pinFailed, affinity, flags,
           freeIoctls, latencyWriters>>

VARIABLES
    cpulist,             \* the text CPUMaskFromString is called with
    parseRet             \* whether CPUMaskFromString returned, and what: [returned, err, mask]

lvars == <<cpulist, parseRet>>

\* CPUMaskFromString is not called.
NotParsed == [returned |-> FALSE, err |-> FALSE, mask |-> <<>>]
OffL == cpulist = <<>> /\ parseRet = NotParsed

VARIABLES
    sysfs,               \* per NUMA node of the machine: the text of its cpulist file
    newRet,              \* "none", or how kallocfree.New returned: "ok" or its error
    cpuToNode,           \* the Workload's cpuToNode map
    numaStats            \* [pagesAllocated, numaRemoteAllocations]

nvars == <<sysfs, newRet, cpuToNode, numaStats>>

NoMap == [c \in {} |-> 0]
\* New is not called.
OffN == /\ sysfs = NoMap /\ newRet = "none" /\ cpuToNode = NoMap
        /\ numaStats = [pagesAllocated |-> 0, numaRemoteAllocations |-> 0]

VARIABLES
    stream,              \* the data two runs of the build pass to Add, in order
    reservoir,           \* per run: the Reservoir [outSamples, numInSamples, seed, draws]
    adds                 \* per run: the calls of Add made

svars == <<stream, reservoir, adds>>

\* No Reservoir is in use.
OffS == stream = <<>> /\ reservoir = <<>> /\ adds = <<>>

VARIABLES
    childOut,            \* what the findlimit child writes to its stdout, if it runs
    childTerm,           \* how the findlimit child terminates, if it runs
    flRet                \* whether findlimit.Run returned, and what

fvars == <<childOut, childTerm, flRet>>

NotRun == [returned |-> FALSE, kind |-> "none", Allocated |-> 0, quoted |-> <<>>,
           fault |-> "none"]
\* findlimit.Run is not called.
OffF == childOut = <<>> /\ childTerm = [kind |-> "none"] /\ flRet = NotRun

VARIABLES
    compPc,              \* where the composite's run is
    deadline,            \* the --timeout-s deadline has fired: every context is done
    cancelled,           \* run's cancel() was called
    compErr,             \* "nil", or the first error: run's own or its errgroup's
    kaf,                 \* the kallocfree Run goroutine: "notStarted", "running", "returned"
    kafSteady,           \* the workload's steadyStateReached channel is closed
    flRunning,           \* "none", or the phase whose findlimit.Run is in progress
    antagPc,             \* the second goroutine: "none", "loop", "done"
    compResult,          \* the composite's Result
    measuredOff          \* history: an antagonised findlimit run was in progress at a
                         \* time when kallocfree's workers were not all running past
                         \* steady state

cvars == <<compPc, deadline, cancelled, compErr, kaf, kafSteady, flRunning, antagPc,
           compResult, measuredOff>>

NoResult == [IdleAvailableBytes |-> <<>>, AntagonizedAvailableBytes |-> <<>>,
             KernelPageAllocs |-> 0, KernelPageAllocsRemote |-> 0,
             KernelPageAllocLatenciesNS |-> <<>>]
\* The composite is not run.
OffC == /\ compPc = "off" /\ deadline = FALSE /\ cancelled = FALSE /\ compErr = "nil"
        /\ kaf = "notStarted" /\ kafSteady = FALSE /\ flRunning = "none"
        /\ antagPc = "none" /\ compResult = NoResult /\ measuredOff = FALSE

\* What the actions of one part of the program leave alone: the variables of
\* the other parts.
\* allocPageOnCPU, one call: where it is, its backoff (a time.Duration, see
\* Duration below), the timer of time.After, whether ctx is done, how many
\* times it has called kmod.AllocPage and how many of them it counted as
\* allocFailures, what it returned and by which case its select woke; and its
\* caller runCPU: the pages in its vector, the FreePage calls of its deferred
\* function, and its return value.
VARIABLES
    boPc,
    backoff,
    boTimer,
    boCtxDone,
    allocCalls,
    allocFailures,
    boRet,
    rc

bvars == <<boPc, backoff, boTimer, boCtxDone, allocCalls, allocFailures, boRet, rc>>

NoRet == [kind |-> "none", woke |-> "none"]
NoRunCPU == [pages |-> 0, freed |-> 0, ret |-> "running"]

OffB == /\ boPc = "off" /\ backoff = <<>> /\ boTimer = "none" /\ boCtxDone = FALSE
        /\ allocCalls = 0 /\ allocFailures = 0 /\ boRet = NoRet /\ rc = NoRunCPU

\* One runCPU with every handle told apart: where it is, its pages vector
\* (each *kmod.Page is the number of the AllocPage call that returned it), its
\* target, how many handles AllocPage has returned, the handles passed to
\* kmod.FreePage in the order of the calls, whether ctx is done, the package's
\* freeErrorLogged, how many ioctls have failed, and what runCPU returned.
VARIABLES
    burstPc,
    pages,
    target,
    handles,
    freeCalls,
    burstCtxDone,
    burstLogged,
    burstFaults,
    burstRet

uvars == <<burstPc, pages, target, handles, freeCalls, burstCtxDone, burstLogged,
           burstFaults, burstRet>>

OffU == /\ burstPc = "off" /\ pages = <<>> /\ target = 0 /\ handles = 0
        /\ freeCalls = <<>> /\ burstCtxDone = FALSE /\ burstLogged = FALSE
        /\ burstFaults = 0 /\ burstRet = "running"

\* One timed allocator call of an ioctl: the command, where the call is, the
\* monotonic clock (in ns), the local `start`, what the ktime_get() after
\* the allocator call returned, and the latency_ns the ioctl reports.
VARIABLES
    latCmd,
    latPc,
    ktime,
    start,
    finish,
    latency_ns

tvars == <<latCmd, latPc, ktime, start, finish, latency_ns>>

OffT == /\ latCmd = "none" /\ latPc = "off" /\ ktime = 0 /\ start = 0 /\ finish = 0
        /\ latency_ns = 0

\* The findlimit child (workload/findlimit/child): doMain's loop, its faulting
\* goroutines and its printing goroutine.
VARIABLES
    childPc,        \* where doMain is: "off", "mmap", "spawn", "wait", "stopped"
    numCPU,         \* runtime.NumCPU()
    data,           \* per page of the region mapped last: the writes made to it
    added,          \* per page of that region: the Adds made after a write to it
    faulters,       \* per chunkStart of a goroutine started: [offset, pc]
    chunkStart,     \* the spawning loop's variable
    wg,             \* the WaitGroup's counter
    allocedBytes,   \* the atomic counter
    printerPc,      \* the printing goroutine: "off", "load", "print"
    loaded,         \* the value its Load returned, not yet printed
    printed,        \* the total printed last
    touched,        \* history: bytes of the pages written so far, in every region
    maps            \* history: the regions mapped so far

hvars == <<childPc, numCPU, data, added, faulters, chunkStart, wg, allocedBytes,
           printerPc, loaded, printed, touched, maps>>

OffH == /\ childPc = "off" /\ numCPU = 1 /\ data = <<>> /\ added = <<>> /\ faulters = <<>>
        /\ chunkStart = 0 /\ wg = 0 /\ allocedBytes = 0 /\ printerPc = "off" /\ loaded = 0
        /\ printed = 0 /\ touched = 0 /\ maps = 0

notKmod == <<wvars, lvars, nvars, svars, fvars, cvars, bvars, uvars, tvars, hvars>>
notWork == <<kvars, lvars, nvars, svars, fvars, cvars, bvars, uvars, tvars, hvars>>
notLinux == <<kvars, wvars, nvars, svars, fvars, cvars, bvars, uvars, tvars, hvars>>
notNuma == <<kvars, wvars, lvars, svars, fvars, cvars, bvars, uvars, tvars, hvars>>
notSampling == <<kvars, wvars, lvars, nvars, fvars, cvars, bvars, uvars, tvars, hvars>>
notFindlimit == <<kvars, wvars, lvars, nvars, svars, cvars, bvars, uvars, tvars, hvars>>
notComposite == <<kvars, wvars, lvars, nvars, svars, fvars, bvars, uvars, tvars, hvars>>
notBackoff == <<kvars, wvars, lvars, nvars, svars, fvars, cvars, uvars, tvars, hvars>>
notBurst == <<kvars, wvars, lvars, nvars, svars, fvars, cvars, bvars, tvars, hvars>>
notLatency == <<kvars, wvars, lvars, nvars, svars, fvars, cvars, bvars, uvars, hvars>>
notChild == <<kvars, wvars, lvars, nvars, svars, fvars, cvars, bvars, uvars, tvars>>

vars == <<kvars, wvars, lvars, nvars, svars, fvars, cvars, bvars, uvars, tvars, hvars>>

\* ------------------------------------------------------------- helpers
RECURSIVE Pow2(_)
Pow2(n) == IF n = 0 THEN 1 ELSE 2 * Pow2(n - 1)

\* The lists a block is linked into.
ListsOf(p) == {c \in CPUs : p \in alloced_pages[c].pages}

NoCall == [pc |-> "none", cpu |-> NoList, ran |-> NoList, modified |-> FALSE]

InFlight == {p \in PageIds : call[p].pc # "none"}

\* A node that can still be called after proc_remove.
CanEnterAfterRemove == Cardinality(InFlight) < NumCallers

\* A caller is free to enter the ioctl, and the node is there to be called.
CanEnter == procfs_file /\ Cardinality(InFlight) < NumCallers

\* The record of an ioctl that returned.
Returned(cmd, held, ret, modified) ==
    [cmd |-> cmd, held |-> held, ret |-> ret, modified |-> modified]

\* alloced_pages_init, proc_create
InitK ==
    /\ alloced_pages = [c \in CPUs |-> [lock |-> FALSE, pages |-> {}]]
    /\ ap = [p \in PageIds |-> [aps |-> NoList, order |-> 0]]
    /\ owned = [p \in PageIds |-> 0]
    /\ call = [p \in PageIds |-> NoCall]
    /\ last = Returned("none", TRUE, "0", FALSE)
    /\ userIds = {}
    /\ procfs_file = TRUE
    /\ modState = "loaded"
    /\ kernelFault = "none"

pfn_valid(id) == id # BadPfn

\* ----------------------------------------------------- PAB_IOCTL_ALLOC_PAGE
\* pab_ioctl, case PAB_IOCTL_ALLOC_PAGE, up to the call of alloced_page_store:
\* copy_from_user, alloc_pages, and alloced_page_store's ap->order = order.
AllocPageEnter ==
    /\ CanEnter
    /\ \E order \in Orders, copied \in BOOLEAN, p \in PageIds \cup {BadPfn} :
         \* p = BadPfn stands for alloc_pages returning NULL
         /\ p # BadPfn => owned[p] = 0 /\ call[p].pc = "none"
         /\ IF ~copied
              THEN /\ last' = Returned("alloc", TRUE, "uncopied", FALSE)
                   /\ UNCHANGED <<ap, owned, call>>
              ELSE IF p = BadPfn
              THEN /\ last' = Returned("alloc", TRUE, "-ENOMEM", FALSE)
                   /\ UNCHANGED <<ap, owned, call>>
              ELSE /\ owned' = [owned EXCEPT ![p] = Pow2(order)]
                   /\ ap' = [ap EXCEPT ![p].order = order]
                   /\ call' = [call EXCEPT ![p] = [NoCall EXCEPT !.pc = "a_lock"]]
                   /\ UNCHANGED last
    /\ UNCHANGED <<alloced_pages, userIds, procfs_file, modState, kernelFault>>
    /\ UNCHANGED notKmod

\* A thread that can be preempted and migrated between this_cpu_ptr and
\* list_add.
CpuAnywhere(c) == CPUs

\* The CPUs the thread can be on when list_add executes, having been on c at
\* this_cpu_ptr: get_cpu() has disabled preemption until put_cpu().
CpuAtListAdd(c) == {c}

\* alloced_page_store: get_cpu(); aps = this_cpu_ptr(&alloced_pages);
\* spin_lock(&aps->lock); list_add(&ap->node, &aps->pages). cpu is the CPU
\* whose list aps is, ran the CPU the thread is on at list_add.
AllocStoreListAdd(p) ==
    /\ call[p].pc = "a_lock"
    /\ \E c \in CPUs : \E at \in CpuAtListAdd(c) :
         /\ ~alloced_pages[c].lock
         /\ alloced_pages' = [alloced_pages EXCEPT ![c].lock = TRUE, ![c].pages = @ \cup {p}]
         /\ call' = [call EXCEPT ![p] = [pc |-> "a_aps", cpu |-> c, ran |-> at,
                                         modified |-> TRUE]]
    /\ UNCHANGED <<ap, owned, last, userIds, procfs_file, modState, kernelFault>>
    /\ UNCHANGED notKmod

\* Mutant: the back-reference always names the first CPU's list.
StoreApsFirstCpu(p) == CHOOSE c \in CPUs : \A d \in CPUs : c <= d

\* The list the back-reference of a stored block is set to: the local aps.
StoreAps(p) == call[p].cpu

\* alloced_page_store: ap->aps = aps; spin_unlock(&aps->lock); put_cpu()
AllocStoreSetAps(p) ==
    /\ call[p].pc = "a_aps"
    /\ ap' = [ap EXCEPT ![p].aps = StoreAps(p)]
    /\ alloced_pages' = [alloced_pages EXCEPT ![call[p].cpu].lock = FALSE]
    /\ call' = [call EXCEPT ![p].pc = "a_out"]
    /\ UNCHANGED <<owned, last, userIds, procfs_file, modState, kernelFault>>
    /\ UNCHANGED notKmod

\* pab_ioctl, case PAB_IOCTL_ALLOC_PAGE: return copy_to_user(&arg->result, ...)
AllocPageReturn(p) ==
    /\ call[p].pc = "a_out"
    /\ \E copied \in BOOLEAN :
         IF copied
           THEN /\ last' = Returned("alloc", TRUE, "0", call[p].modified)
                /\ userIds' = userIds \cup {p}
           ELSE /\ last' = Returned("alloc", TRUE, "uncopied", call[p].modified)
                /\ UNCHANGED userIds
    /\ call' = [call EXCEPT ![p] = NoCall]
    /\ UNCHANGED <<alloced_pages, ap, owned, procfs_file, modState, kernelFault>>
    /\ UNCHANGED notKmod

\* ------------------------------------- PAB_IOCTL_FREE_PAGE, ..._FREE_PAGE_LEGACY
\* pab_ioctl, cases PAB_IOCTL_FREE_PAGE and PAB_IOCTL_FREE_PAGE_LEGACY, with id as
\* the argument: copy_from_user (the struct variant only), then pab_ioctl_free_page
\* up to ap = alloced_page_get(page). held: user space holds the id.
FreePageBegin(id, held) ==
    \E cmd \in {"free", "free_legacy"}, copied \in BOOLEAN :
         IF cmd = "free" /\ ~copied
           THEN /\ last' = Returned(cmd, held, "uncopied", FALSE)
                /\ UNCHANGED <<userIds, call>>
           ELSE /\ userIds' = userIds \ {id}
                /\ IF ~pfn_valid(id)
                     THEN /\ last' = Returned(cmd, held, "-EINVAL", FALSE)
                          /\ UNCHANGED call
                     ELSE /\ call' = [call EXCEPT ![id] = [NoCall EXCEPT !.pc = "f_lock"]]
                          /\ UNCHANGED last

\* FREE_PAGE on an id user space holds.
FreePageEnter ==
    /\ CanEnter
    /\ \E id \in userIds : FreePageBegin(id, TRUE)
    /\ UNCHANGED <<alloced_pages, ap, owned, procfs_file, modState, kernelFault>>
    /\ UNCHANGED notKmod

\* An alloced_page_remove that takes the lock of the first CPU's list.
RemoveLockFirstCpu(p) == CHOOSE c \in CPUs : \A d \in CPUs : c <= d

\* The lock alloced_page_remove takes and drops: the one of the list ap->aps names.
RemoveLock(p) == ap[p].aps

\* Mutant: the node is left linked.
ListDelForgotten(p) == alloced_pages

\* list_del(&ap->node): the node leaves the list it is linked on, whichever
\* lock the caller holds.
ListDel(p) == [c \in CPUs |-> [alloced_pages[c] EXCEPT !.pages = @ \ {p}]]

\* FREE_PAGE (its arguments copied in) on an id user space does not hold and that
\* names no block of the module. A bad pfn is refused. Any other id reaches
\* alloced_page_remove and __free_pages on memory that is no alloced_page: the
\* kernel faults on the stale ap->aps or node pointers ("oops"), or it survives,
\* a stale list_del unlinking some listed block or none, and a block the module
\* does not own goes to __free_pages ("bad_free").
ForgedFree ==
    /\ CanEnter
    /\ \E id \in Ids \ userIds, cmd \in {"free", "free_legacy"} :
         /\ id \in PageIds => owned[id] = 0
         /\ IF ~pfn_valid(id)
              THEN /\ last' = Returned(cmd, FALSE, "-EINVAL", FALSE)
                   /\ UNCHANGED <<alloced_pages, kernelFault>>
              ELSE \E oops, copied \in BOOLEAN, victim \in Ids :
                     /\ victim \in PageIds =>
                            /\ ListsOf(victim) # {}
                            /\ call[victim].pc = "none"
                            /\ ~alloced_pages[ap[victim].aps].lock
                     /\ IF oops
                          THEN /\ kernelFault' = "oops"
                               /\ UNCHANGED <<alloced_pages, last>>
                          ELSE /\ kernelFault' = "bad_free"
                               /\ alloced_pages' = IF victim \in PageIds THEN ListDel(victim)
                                                                            ELSE alloced_pages
                               /\ last' = Returned(cmd, FALSE,
                                             IF cmd = "free_legacy" \/ copied THEN "0" ELSE "uncopied",
                                             victim \in PageIds)
    /\ UNCHANGED <<ap, owned, call, userIds, procfs_file, modState>>
    /\ UNCHANGED notKmod

\* alloced_page_remove: spin_lock(&ap->aps->lock); list_del(&ap->node). cpu
\* is the CPU whose lock is taken; the CPU the thread runs on is not read and
\* has no part in the call.
FreeRemoveListDel(p) ==
    /\ call[p].pc = "f_lock"
    /\ RemoveLock(p) \in CPUs
    /\ ~alloced_pages[RemoveLock(p)].lock
    /\ alloced_pages' = [ListDel(p) EXCEPT ![RemoveLock(p)].lock = TRUE]
    /\ call' = [call EXCEPT ![p] = [pc |-> "f_del", cpu |-> RemoveLock(p), ran |-> NoList,
                                    modified |-> TRUE]]
    /\ UNCHANGED <<ap, owned, last, userIds, procfs_file, modState, kernelFault>>
    /\ UNCHANGED notKmod

\* The order pab_ioctl_free_page hands to __free_pages.
FreeOrder(p) == ap[p].order

\* What is left of block p with the module after __free_pages(p, order).
AfterFreePages(p, order) ==
    IF owned[p] >= Pow2(order) THEN owned[p] - Pow2(order) ELSE 0

\* The block's memory once the allocator has it back: no longer an alloced_page.
Scrub(p) == [ap EXCEPT ![p] = [aps |-> NoList, order |-> 0]]

\* alloced_page_remove: spin_unlock(&ap->aps->lock); then pab_ioctl_free_page:
\* __free_pages(page, ap->order); then the return of the ioctl: 0 for the legacy
\* variant, copy_to_user's result for the struct one.
FreePageRelease(p) ==
    /\ call[p].pc = "f_del"
    /\ alloced_pages' = [alloced_pages EXCEPT ![RemoveLock(p)].lock = FALSE]
    /\ owned' = [owned EXCEPT ![p] = AfterFreePages(p, FreeOrder(p))]
    /\ ap' = Scrub(p)
    /\ \E cmd \in {"free", "free_legacy"}, copied \in BOOLEAN :
         last' = Returned(cmd, TRUE, IF cmd = "free_legacy" \/ copied THEN "0" ELSE "uncopied",
                          call[p].modified)
    /\ call' = [call EXCEPT ![p] = NoCall]
    /\ UNCHANGED <<userIds, procfs_file, modState, kernelFault>>
    /\ UNCHANGED notKmod

\* pab_ioctl, default case
UnknownIoctl ==
    /\ CanEnter
    /\ last' = Returned("unknown", TRUE, "-EINVAL", FALSE)
    /\ UNCHANGED <<alloced_pages, ap, owned, call, userIds, procfs_file, modState, kernelFault>>
    /\ UNCHANGED notKmod

\* ------------------------------------------------------------------ pab_exit
\* pab_exit: proc_remove(procfs_file). No ioctl starts once the node is gone;
\* proc_remove returns when the ioctls in flight have returned.
ProcRemove ==
    /\ modState = "loaded"
    /\ procfs_file' = FALSE
    /\ modState' = "exiting"
    /\ UNCHANGED <<alloced_pages, ap, owned, call, last, userIds, kernelFault>>
    /\ UNCHANGED notKmod

\* The order alloced_pages_free_all releases a listed block at:
\* __free_page(page) is __free_pages(page, 0).
FreeAllOrder(p) == 0

\* alloced_pages_free_all: one turn of list_for_each_entry_safe on some CPU's list:
\* list_del(&ap->node); __free_page(virt_to_page(ap))
FreeAllEntry ==
    /\ modState = "exiting"
    /\ InFlight = {}
    /\ \E c \in CPUs : \E p \in alloced_pages[c].pages :
         /\ alloced_pages' = ListDel(p)
         /\ owned' = [owned EXCEPT ![p] = AfterFreePages(p, FreeAllOrder(p))]
         /\ ap' = Scrub(p)
    /\ UNCHANGED <<call, last, userIds, procfs_file, modState, kernelFault>>
    /\ UNCHANGED notKmod

\* alloced_pages_free_all returns: every list has been walked to its end.
FreeAllDone ==
    /\ modState = "exiting"
    /\ InFlight = {}
    /\ \A c \in CPUs : alloced_pages[c].pages = {}
    /\ modState' = "unloaded"
    /\ UNCHANGED <<alloced_pages, ap, owned, call, last, userIds, procfs_file, kernelFault>>
    /\ UNCHANGED notKmod

\* ============================================================ kallocfree
\* New: numThreads is runtime.NumCPU()
NumThreads == NumCPUs
Threads == 1..NumThreads

\* The largest of a non-empty sequence of numbers (slices.Max).
SlicesMax(cpus) == CHOOSE m \in {cpus[i] : i \in 1..Len(cpus)} :
                     \A i \in 1..Len(cpus) : cpus[i] <= m

\* linux.NewCPUMask(cpus...): a mask of (maxCPU/64)+1 words, each word the set
\* of its bits that are 1. The loop is `for cpu, _ := range cpus`, so cpu runs
\* over the indexes 0..len(cpus)-1 of the arguments, not over their values.
NewCPUMask(cpus) ==
    [word \in 0..(SlicesMax(cpus) \div WordBits) |->
        {cpu % WordBits : cpu \in {i \in 0..(Len(cpus) - 1) : i \div WordBits = word}}]

\* The CPUs that are online, numbered from 0 as the kernel and
\* runtime.NumCPU number them.
OnlineCPUs == 0..(NumCPUs - 1)

\* The cpu Run starts worker w for: `for cpu := 0; cpu < w.numThreads; cpu++`.
CPUOf(w) == w - 1

\* sched_setaffinity(0, size, mask) that succeeded: the thread may run on the
\* online CPUs whose bit is set in the mask.
SchedSetaffinity(mask) ==
    {c \in OnlineCPUs : (c \div WordBits) \in DOMAIN mask /\ (c % WordBits) \in mask[c \div WordBits]}

\* A *kmod.Page in a worker's pages vector. The workload does nothing with
\* the id in it but pass it back to FREE_PAGE, once the ioctl that returned it
\* has succeeded, so the pages of a vector are told apart by their position
\* only, and the module's outstanding blocks are counted.
Page == "page"

\* error values: the errno they were made from, and whether errors.Is can
\* find it by unwrapping.
Nil == [errno |-> "0", wraps |-> FALSE]

\* linux.Ioctl: nil, or fmt.Errorf("ioctl ... : %v\n", ..., err) for errno err.
\* The verb is %v, so the errno is formatted into the text, not wrapped.
Ioctl(errno) == IF errno = "0" THEN Nil ELSE [errno |-> errno, wraps |-> FALSE]

\* errors.Is(err, target) for a syscall.Errno target
errorsIs(err, errno) == err # Nil /\ err.wraps /\ err.errno = errno

\* The results a system call can have: "0", or one of the errnos while fewer
\* than MaxFaults calls have failed.
Results(errnos) == {"0"} \cup (IF ioctlFailed + pinFailed < MaxFaults THEN errnos ELSE {})

\* A comparison that is already true for the first worker to get there.
AllSteadyAfterFirst(n) == n >= 1

\* A test that forgets the worker's steady flag.
HitsMiddleAgain(n, steady) == n = Middle

\* len(pages) == middle && !steady
HitsMiddle(n, steady) == n = Middle /\ ~steady

\* A comparison that is never true.
AllSteadyBeyond(n) == n > NumThreads

\* steadyStateThreads.Add(1) >= int32(w.numThreads)
AllSteady(n) == n >= NumThreads

\* stats.allocLatencies and stats.freeLatencies: reservoirPerCPU makes one
\* reservoir of each kind per CPU, indexed from 0.
Reservoirs == {"alloc", "free"} \X OnlineCPUs

\* A worker that uses the first reservoir, whatever its cpu.
ReservoirFirst(w) == 0

\* The index of w.stats.allocLatencies[cpu] and w.stats.freeLatencies[cpu]
\* in worker w: the cpu runCPU was called with.
ReservoirOf(w) == CPUOf(w)

\* Worker w calls Add n times on its reservoir of the kind.
LatencyAdd(kind, w, n) ==
    IF n > 0 THEN [latencyWriters EXCEPT ![<<kind, ReservoirOf(w)>>] = @ \cup {w}]
             ELSE latencyWriters

\* The nil *Result: what Run returns with an error, and the value of `result`
\* while Run has not returned.
NilResult == [nil |-> TRUE]

\* eg.Wait() returns once every goroutine of the group has returned.
EgWait == \A w \in Threads : runCPU[w].pc = "done"

\* --kmod-legacy-free-page and Options.MeasureLatencies: both off by default;
\* the legacy interface, with and without latency measurement.
DefaultFlags == {[legacyFreePageInterface |-> FALSE, measureLatencies |-> FALSE]}
LegacyFlags == [legacyFreePageInterface : {TRUE}, measureLatencies : BOOLEAN]

InitWorkload(fl) ==
    /\ flags \in fl
    /\ freeIoctls = {}
    /\ latencyWriters = [r \in Reservoirs |-> {}]
    /\ ctxCancelled = FALSE
    /\ egCancelled = FALSE
    /\ egErr = "nil"
    /\ runCPU = [w \in Threads |->
                   [pc |-> "start", pages |-> <<>>, target |-> 0, steady |-> FALSE,
                    err |-> "nil"]]
    /\ stats = [pagesAllocated |-> 0, pagesFreed |-> 0, allocFailures |-> 0,
                freeLatencies |-> 0]
    /\ steadyStateThreads = 0
    /\ steadyStateReached = FALSE
    /\ freeErrorLogged = FALSE
    /\ runRet = "running"
    /\ result = NilResult
    /\ awaitRet = "waiting"
    /\ kOutstanding = 0
    /\ everMiddle = [w \in Threads |-> FALSE]
    /\ abandoned = [w \in Threads |-> {}]
    /\ enomemSeen = 0
    /\ ioctlFailed = 0
    /\ pinFailed = 0
    /\ affinity = [w \in Threads |-> OnlineCPUs]

InitW == InitWorkload(DefaultFlags)

\* Where runCPU goes when it returns: to its deferred frees, if it holds pages.
ReturnPc(ps) == IF ps = <<>> THEN "done" ELSE "defer"

\* An errgroup that keeps the first error and leaves its context alone.
EgDoneNoCancel(pc, e) ==
    IF pc = "done" /\ e # "nil"
      THEN /\ egErr' = (IF egErr = "nil" THEN e ELSE egErr)
           /\ UNCHANGED egCancelled
      ELSE UNCHANGED <<egErr, egCancelled>>

\* The errgroup when worker w's function is about to return e: the first
\* non-nil error is kept and cancels the group's context.
EgDone(pc, e) ==
    IF pc = "done" /\ e # "nil"
      THEN /\ egErr' = (IF egErr = "nil" THEN e ELSE egErr)
           /\ egCancelled' = TRUE
      ELSE UNCHANGED <<egErr, egCancelled>>

\* runCPU returns e: its pc, and the errgroup if nothing is deferred.
Return(w, e) ==
    /\ runCPU' = [runCPU EXCEPT ![w].pc = ReturnPc(runCPU[w].pages), ![w].err = e,
                                ![w].target = 0]
    /\ EgDone(ReturnPc(runCPU[w].pages), e)

\* Run's goroutine for one CPU, up to the call of runCPU:
\* LockOSThread, NewCPUMask, SchedSetaffinity.
Pin(w) ==
    /\ runCPU[w].pc = "start"
    /\ \E errno \in Results({"EINVAL"}) :
         IF errno = "0"
           THEN /\ runCPU' = [runCPU EXCEPT ![w].pc = "loop"]
                /\ affinity' = [affinity EXCEPT
                                  ![w] = SchedSetaffinity(NewCPUMask(<<CPUOf(w)>>))]
                /\ UNCHANGED <<egErr, egCancelled, pinFailed>>
           ELSE /\ runCPU' = [runCPU EXCEPT ![w].pc = "done", ![w].err = "SchedSetaffinity"]
                /\ EgDone("done", "SchedSetaffinity")
                /\ pinFailed' = pinFailed + 1
                /\ UNCHANGED affinity
    /\ UNCHANGED <<flags, freeIoctls, latencyWriters>>
    /\ UNCHANGED <<ctxCancelled, stats, steadyStateThreads, steadyStateReached,
                   freeErrorLogged, runRet, result, awaitRet, kOutstanding, everMiddle,
                   abandoned, enomemSeen, ioctlFailed>>
    /\ UNCHANGED notWork

\* Where the worker is after a step that leaves it with n pages in a burst
\* to target t: in the allocation loop, in the free loop, or at the loop head.
BurstPc(n, t) == IF n < t THEN "alloc" ELSE IF n > t THEN "free" ELSE "loop"
\* target is local to one turn of the outer loop
BurstTarget(n, t) == IF n = t THEN 0 ELSE t

\* runCPU: the head of `for ctx.Err() == nil` and the choice of the target.
LoopHead(w) ==
    /\ runCPU[w].pc = "loop"
    /\ IF egCancelled
         THEN Return(w, "nil")
         ELSE /\ \E plus \in BOOLEAN, r \in 0..(RandMod - 1) :
                   LET t == IF plus THEN Middle + r ELSE Middle - r IN
                     runCPU' = [runCPU EXCEPT ![w].target = BurstTarget(Len(runCPU[w].pages), t),
                                              ![w].pc = BurstPc(Len(runCPU[w].pages), t)]
              /\ UNCHANGED <<egErr, egCancelled>>
    /\ UNCHANGED <<ctxCancelled, stats, steadyStateThreads, steadyStateReached,
                   freeErrorLogged, runRet, result, awaitRet, kOutstanding, everMiddle,
                   abandoned, enomemSeen, ioctlFailed, pinFailed>>
    /\ UNCHANGED <<affinity, flags, freeIoctls, latencyWriters>>
    /\ UNCHANGED notWork

\* runCPU's `for len(pages) < target` body: one turn of allocPageOnCPU's loop
\* (kmod.AllocPage, or the end of the backoff select), and what runCPU does
\* with a page or an error.
AllocStep(w) ==
    /\ runCPU[w].pc \in {"alloc", "backoff"}
    /\ IF runCPU[w].pc = "backoff"
         THEN \* select { case <-time.After(backoff): ...; case <-ctx.Done(): ... }
              /\ \E timer \in BOOLEAN :
                   /\ ~timer => egCancelled
                   /\ IF timer
                        THEN /\ runCPU' = [runCPU EXCEPT ![w].pc = "alloc"]
                             /\ UNCHANGED <<egErr, egCancelled>>
                        ELSE Return(w, "nil")
              /\ UNCHANGED <<stats, steadyStateThreads, steadyStateReached, kOutstanding,
                             everMiddle, enomemSeen, ioctlFailed, latencyWriters>>
         ELSE \E errno \in Results({"ENOMEM"}) :
                LET err == Ioctl(errno) IN
                /\ stats.pagesAllocated < MaxAllocs \/ egCancelled
                /\ enomemSeen' = IF errno = "ENOMEM" THEN enomemSeen + 1 ELSE enomemSeen
                /\ ioctlFailed' = ioctlFailed + (IF errno = "0" THEN 0 ELSE 1)
                /\ IF errorsIs(err, "ENOMEM")
                     THEN /\ stats' = [stats EXCEPT !.allocFailures = @ + 1]
                          /\ runCPU' = [runCPU EXCEPT ![w].pc = "backoff"]
                          /\ UNCHANGED <<egErr, egCancelled, steadyStateThreads,
                                         steadyStateReached, kOutstanding, everMiddle,
                                         latencyWriters>>
                     ELSE IF err # Nil
                     THEN /\ Return(w, IF egCancelled THEN "nil" ELSE "allocating page: " \o err.errno)
                          /\ UNCHANGED <<stats, steadyStateThreads, steadyStateReached,
                                         kOutstanding, everMiddle, latencyWriters>>
                     ELSE LET ps == Append(runCPU[w].pages, Page)
                              hit == HitsMiddle(Len(ps), runCPU[w].steady)
                          IN
                          /\ kOutstanding' = kOutstanding + 1
                          /\ stats' = [stats EXCEPT !.pagesAllocated = @ + 1]
                          /\ latencyWriters' =
                               LatencyAdd("alloc", w, IF flags.measureLatencies THEN 1 ELSE 0)
                          /\ steadyStateThreads' = IF hit THEN steadyStateThreads + 1
                                                          ELSE steadyStateThreads
                          /\ steadyStateReached' =
                               (steadyStateReached \/ (hit /\ AllSteady(steadyStateThreads + 1)))
                          /\ everMiddle' = [everMiddle EXCEPT ![w] = @ \/ Len(ps) = Middle]
                          /\ runCPU' = [runCPU EXCEPT ![w].pages = ps,
                                                       ![w].steady = @ \/ hit,
                                                       ![w].target = BurstTarget(Len(ps), @),
                                                       ![w].pc = BurstPc(Len(ps), runCPU[w].target)]
                          /\ UNCHANGED <<egErr, egCancelled>>
    /\ UNCHANGED <<ctxCancelled, freeErrorLogged, runRet, result, awaitRet, abandoned, pinFailed>>
    /\ UNCHANGED <<affinity, flags, freeIoctls>>
    /\ UNCHANGED notWork

\* The module's outstanding blocks after a FREE_PAGE that returned errno, when
\* they were n: a call that fails before pab_ioctl_free_page unlinks the block
\* leaves it outstanding.
KFree(n, errno) == IF errno = "0" THEN n - 1 ELSE n

\* freeErrorLogged is a plain package variable that every worker reads and
\* writes without synchronisation. A worker sees its own write; of another
\* worker's write it may see the value from before it (FALSE) or after it.
SeenLogged(w) ==
    IF runCPU[w].err \in {"freeing page: EINVAL"} THEN {TRUE} ELSE {freeErrorLogged, FALSE}

\* A FreePage that has the new interface only.
FreePageNewOnly(legacy, errno) ==
    [cmd |-> "PAB_IOCTL_FREE_PAGE", arg |-> "&ioctl", latency |-> (errno = "0"),
     err |-> Ioctl(errno)]

\* kmod.Connection.FreePage when the ioctl returns errno: the command and the
\* argument of the ioctl it issues (the page's raw id, or the address of a
\* struct pab_ioctl_free_page holding it), whether it returns a latency (a
\* non-nil *time.Duration), and its error.
FreePage(legacy, errno) ==
    IF legacy
      THEN [cmd |-> "PAB_IOCTL_FREE_PAGE_LEGACY", arg |-> "page.id", latency |-> FALSE,
            err |-> Ioctl(errno)]
      ELSE [cmd |-> "PAB_IOCTL_FREE_PAGE", arg |-> "&ioctl", latency |-> (errno = "0"),
            err |-> Ioctl(errno)]

\* freePageOnCPU: `if w.measureLatencies && latency != nil` guards the Add to
\* the worker's free-latency reservoir. A FreePage that failed returned a nil
\* latency, so the early return on an error skips no Add.
LatencyAdds(measure, fp) == IF measure /\ fp.latency THEN 1 ELSE 0

\* A freePageOnCPU that leaves pagesFreed alone.
freePageOnCPUUncounted(errno, logged, freed) ==
    LET err == Ioctl(errno) IN
      IF err # Nil /\ ~logged
        THEN [err |-> err, pagesFreed |-> freed, set |-> TRUE]
        ELSE [err |-> Nil, pagesFreed |-> freed, set |-> FALSE]

\* freePageOnCPU when the ioctl returned errno, the worker read `logged` from
\* freeErrorLogged and pagesFreed was `freed`: the error it returns, the new
\* pagesFreed and whether it set freeErrorLogged.
freePageOnCPU(errno, logged, freed) ==
    LET err == Ioctl(errno) IN
      IF err # Nil /\ ~logged
        THEN [err |-> err, pagesFreed |-> freed, set |-> TRUE]
        ELSE [err |-> Nil, pagesFreed |-> freed + 1, set |-> FALSE]

\* runCPU's `for len(pages) > target` body
FreeStep(w) ==
    /\ runCPU[w].pc = "free"
    /\ \E errno \in Results({"EINVAL"}), logged \in SeenLogged(w) :
         LET r == freePageOnCPU(errno, logged, stats.pagesFreed)
             fp == FreePage(flags.legacyFreePageInterface, errno)
             ps == Tail(runCPU[w].pages)
         IN
         /\ kOutstanding' = KFree(kOutstanding, errno)
         /\ ioctlFailed' = ioctlFailed + (IF errno = "0" THEN 0 ELSE 1)
         /\ stats' = [stats EXCEPT !.pagesFreed = r.pagesFreed,
                                   !.freeLatencies = @ + LatencyAdds(flags.measureLatencies, fp)]
         /\ freeIoctls' = freeIoctls \cup {<<fp.cmd, fp.arg>>}
         /\ latencyWriters' = LatencyAdd("free", w, LatencyAdds(flags.measureLatencies, fp))
         /\ freeErrorLogged' = (freeErrorLogged \/ r.set)
         /\ IF r.err # Nil
              THEN /\ Return(w, "freeing page: " \o r.err.errno)
                   /\ UNCHANGED everMiddle
              ELSE /\ runCPU' = [runCPU EXCEPT ![w].pages = ps,
                                               ![w].target = BurstTarget(Len(ps), @),
                                               ![w].pc = BurstPc(Len(ps), runCPU[w].target)]
                   /\ everMiddle' = [everMiddle EXCEPT ![w] = @ \/ Len(ps) = Middle]
                   /\ UNCHANGED <<egErr, egCancelled>>
    /\ UNCHANGED <<ctxCancelled, steadyStateThreads, steadyStateReached, runRet, result,
                   awaitRet, abandoned, enomemSeen, pinFailed>>
    /\ UNCHANGED <<affinity, flags>>
    /\ UNCHANGED notWork

\* runCPU's deferred function, `for _, page := range pages`, from its k-th
\* turn on, when the FREE_PAGE calls of the turns in `fails` return EINVAL:
\* acc.freed is pagesFreed, acc.logged the worker's view of freeErrorLogged,
\* acc.issued the positions whose page was passed to FreePage, acc.k the
\* module's outstanding blocks.
RECURSIVE DeferredLoop(_, _, _, _)
DeferredLoop(ps, fails, k, acc) ==
    IF k > Len(ps)
      THEN acc
      ELSE LET errno == IF k \in fails THEN "EINVAL" ELSE "0"
               r == freePageOnCPU(errno, acc.logged, acc.freed)
               fp == FreePage(flags.legacyFreePageInterface, errno)
           IN DeferredLoop(ps, fails, k + 1,
                           [freed |-> r.pagesFreed, logged |-> acc.logged \/ r.set,
                            set |-> acc.set \/ r.set, issued |-> acc.issued \cup {k},
                            k |-> KFree(acc.k, errno),
                            latencies |-> acc.latencies
                                            + LatencyAdds(flags.measureLatencies, fp),
                            ioctls |-> acc.ioctls \cup {<<fp.cmd, fp.arg>>}])

\* A deferred function that ranges over nothing.
DeferredPagesNone(w) == <<>>

\* The pages runCPU's deferred function ranges over
DeferredPages(w) == runCPU[w].pages

\* runCPU's deferred function. Its calls touch pagesFreed (atomic adds),
\* freeErrorLogged (see SeenLogged) and the module's count of blocks; no other
\* worker's step depends on the order of those, so the loop is one step.
DeferredFree(w) ==
    /\ runCPU[w].pc = "defer"
    /\ \E fails \in SUBSET (1..Len(DeferredPages(w))), logged \in SeenLogged(w) :
         LET ps == DeferredPages(w)
             r == DeferredLoop(ps, fails, 1,
                               [freed |-> stats.pagesFreed, logged |-> logged,
                                set |-> FALSE, issued |-> {}, k |-> kOutstanding,
                                latencies |-> 0, ioctls |-> {}])
         IN
         /\ ioctlFailed + pinFailed + Cardinality(fails) <= MaxFaults
         /\ kOutstanding' = r.k
         /\ ioctlFailed' = ioctlFailed + Cardinality(fails)
         /\ stats' = [stats EXCEPT !.pagesFreed = r.freed, !.freeLatencies = @ + r.latencies]
         /\ freeIoctls' = freeIoctls \cup r.ioctls
         /\ latencyWriters' = LatencyAdd("free", w, r.latencies)
         /\ freeErrorLogged' = (freeErrorLogged \/ r.set)
         /\ abandoned' = [abandoned EXCEPT ![w] = (1..Len(runCPU[w].pages)) \ r.issued]
         \* pages is a local of runCPU and is gone once it has returned
         /\ runCPU' = [runCPU EXCEPT ![w].pc = "done", ![w].pages = <<>>]
         /\ EgDone("done", runCPU[w].err)
    /\ UNCHANGED <<ctxCancelled, steadyStateThreads, steadyStateReached, runRet, result,
                   awaitRet, everMiddle, enomemSeen, pinFailed>>
    /\ UNCHANGED <<affinity, flags>>
    /\ UNCHANGED notWork

\* Run: eg.Wait() returns once every goroutine has, and Run returns the
\* group's error, or the Result read from the stats.
Wait ==
    /\ runRet = "running"
    /\ EgWait
    /\ egCancelled' = TRUE
    /\ IF egErr # "nil"
         THEN /\ runRet' = "error"
              /\ UNCHANGED result
         ELSE /\ runRet' = "result"
              /\ result' = [AllocFailures |-> stats.allocFailures,
                            PagesAllocated |-> stats.pagesAllocated,
                            PagesFreed |-> stats.pagesFreed]
    /\ UNCHANGED <<ctxCancelled, egErr, runCPU, stats, steadyStateThreads, steadyStateReached,
                   freeErrorLogged, awaitRet, kOutstanding, everMiddle, abandoned,
                   enomemSeen, ioctlFailed, pinFailed>>
    /\ UNCHANGED <<affinity, flags, freeIoctls, latencyWriters>>
    /\ UNCHANGED notWork

\* The caller of Run cancels the context; the errgroup's context derives from it.
Cancel ==
    /\ ~ctxCancelled
    /\ ctxCancelled' = TRUE
    /\ egCancelled' = TRUE
    /\ UNCHANGED <<egErr, runCPU, stats, steadyStateThreads, steadyStateReached,
                   freeErrorLogged, runRet, result, awaitRet, kOutstanding, everMiddle,
                   abandoned, enomemSeen, ioctlFailed, pinFailed>>
    /\ UNCHANGED <<affinity, flags, freeIoctls, latencyWriters>>
    /\ UNCHANGED notWork

\* AwaitSteadyState: the select returns by a case that is ready.
AwaitSteadyState ==
    /\ awaitRet = "waiting"
    /\ \E case \in {"ctx.Done", "steadyStateReached"} :
         /\ case = "ctx.Done" => ctxCancelled
         /\ case = "steadyStateReached" => steadyStateReached
         /\ awaitRet' = case
    /\ UNCHANGED <<ctxCancelled, egCancelled, egErr, runCPU, stats, steadyStateThreads,
                   steadyStateReached, freeErrorLogged, runRet, result, kOutstanding,
                   everMiddle, abandoned, enomemSeen, ioctlFailed, pinFailed>>
    /\ UNCHANGED <<affinity, flags, freeIoctls, latencyWriters>>
    /\ UNCHANGED notWork

WorkerStep(w) ==
    \/ Pin(w)
    \/ LoopHead(w)
    \/ AllocStep(w)
    \/ FreeStep(w)
    \/ DeferredFree(w)

NextWork ==
    \/ \E w \in Threads : WorkerStep(w)
    \/ Wait
    \/ Cancel
    \/ AwaitSteadyState

\* The module just loaded and a Workload just constructed
Init == InitK /\ InitW /\ OffL /\ OffN /\ OffS /\ OffF /\ OffC /\ OffB /\ OffU /\ OffT /\ OffH

SpecWork == Init /\ [][NextWork]_vars

\* OS threads run, ioctls return, and Run's goroutine is scheduled.
SpecWorkFair ==
    /\ SpecWork
    /\ \A w \in Threads : WF_vars(WorkerStep(w))
    /\ WF_vars(Wait)

\* A worker below the middle draws a target at or above it.
DrawAbove(w) ==
    LoopHead(w) /\ Len(runCPU[w].pages) < Middle /\ runCPU'[w].target >= Middle

\* OS threads run and ioctls return, a worker below the middle does not draw
\* targets below it for ever, and the goroutine in AwaitSteadyState is
\* scheduled.
SpecWorkSteady ==
    /\ SpecWork
    /\ \A w \in Threads : WF_vars(WorkerStep(w)) /\ SF_vars(DrawAbove(w))
    /\ WF_vars(AwaitSteadyState)

\* The workload constructed with Options.MeasureLatencies
MeasuredFlags == {[legacyFreePageInterface |-> FALSE, measureLatencies |-> TRUE]}

InitMeasured == InitK /\ InitWorkload(MeasuredFlags) /\ OffL /\ OffN /\ OffS /\ OffF /\ OffC /\ OffB /\ OffU /\ OffT /\ OffH

SpecWorkMeasured == InitMeasured /\ [][NextWork]_vars

\* The workload started with --kmod-legacy-free-page
InitLegacy == InitK /\ InitWorkload(LegacyFlags) /\ OffL /\ OffN /\ OffS /\ OffF /\ OffC /\ OffB /\ OffU /\ OffT /\ OffH

SpecWorkLegacy == InitLegacy /\ [][NextWork]_vars

\* ============================================================ specifications
NextKmod ==
    \/ AllocPageEnter
    \/ \E p \in PageIds : AllocStoreListAdd(p)
    \/ \E p \in PageIds : AllocStoreSetAps(p)
    \/ \E p \in PageIds : AllocPageReturn(p)
    \/ FreePageEnter
    \/ \E p \in PageIds : FreeRemoveListDel(p)
    \/ \E p \in PageIds : FreePageRelease(p)
    \/ UnknownIoctl
    \/ ProcRemove
    \/ FreeAllEntry
    \/ FreeAllDone

SpecKmod == Init /\ [][NextKmod]_vars

NextKmodAny == NextKmod \/ ForgedFree

SpecKmodAny == Init /\ [][NextKmodAny]_vars

\* ================================================================== claims
\* C1: while the module is loaded (after pab_init, before pab_exit), every id
\* that a successful ALLOC_PAGE returned and that has not been passed to
\* FREE_PAGE names a block linked on exactly one per-CPU list, whatever the
\* interleaving of the ioctls.
C1_OutstandingOnOneList ==
    modState = "loaded" => \A p \in userIds : Cardinality(ListsOf(p)) = 1

\* An outstanding block is listed while another block is being unlinked under
\* the lock of a list and the module is loaded.
C1_Witness ==
    /\ modState = "loaded"
    /\ \E p \in userIds, q \in PageIds :
         /\ ListsOf(p) # {}
         /\ call[q].pc = "f_del"
         /\ call[q].cpu \notin ListsOf(p)

\* C2: when module exit has completed, the module holds no page it obtained
\* from alloc_pages: the pages it gave back over its life are the pages it
\* obtained (2^order for each allocation).
C2_NoLeakAfterExit ==
    modState = "unloaded" => \A p \in PageIds : owned[p] = 0

\* C3: the back-reference ap->aps of every outstanding allocation, and of
\* every block linked on a list whose lock is free, names the list the block
\* is linked on.
C3_BackReference ==
    /\ \A c \in CPUs : ~alloced_pages[c].lock =>
           \A p \in alloced_pages[c].pages : ap[p].aps = c
    /\ modState = "loaded" => \A p \in userIds : ListsOf(p) = {ap[p].aps}

\* Two outstanding allocations on different lists, while a third party's lock
\* is held by a call that stores or removes a block.
C3_Witness ==
    /\ modState = "loaded"
    /\ \E p \in userIds, q \in PageIds :
         /\ call[q].pc \in {"f_del", "a_aps"}
         /\ ap[p].aps \in CPUs
         /\ ap[p].aps # call[q].cpu

\* C4: an ioctl that returned a value other than 0 changed no per-CPU list.
C4_FailedIoctlChangesNothing ==
    last.ret # "0" => ~last.modified

\* C5: FREE_PAGE on an id that names no outstanding allocation of the module
\* returns -EINVAL, changes no list and hands nothing to the page allocator.
C5_ForgedFreeRejected ==
    /\ kernelFault = "none"
    /\ (last.cmd \in {"free", "free_legacy"} /\ ~last.held) =>
          (last.ret = "-EINVAL" /\ ~last.modified)

\* C6: an ALLOC_PAGE that fails with ENOMEM is transient for the kallocfree
\* worker: every such failure adds one to allocFailures, and no worker returns
\* an error because of it.
C6_EnomemIsTransient ==
    /\ stats.allocFailures = enomemSeen
    /\ \A w \in Threads : runCPU[w].err # "allocating page: ENOMEM"

\* C7: the steady-state channel is closed, and AwaitSteadyState returns by it
\* (the only way it returns while its context is live), only when every worker
\* has at least once held exactly Middle pages.
C7_SteadyStateSafety ==
    (steadyStateReached \/ awaitRet = "steadyStateReached")
        => \A w \in Threads : everMiddle[w]

C7_Witness ==
    /\ awaitRet = "steadyStateReached"
    /\ ~ctxCancelled
    /\ \E w \in Threads : Len(runCPU[w].pages) # Middle /\ runCPU[w].pc \in {"alloc", "free"}

\* C8: once runCPU has returned, whatever the reason, FreePage has been called
\* in its deferred function for every handle that was left in its pages vector.
C8_ExitFreesAll ==
    \A w \in Threads : runCPU[w].pc = "done" => abandoned[w] = {}

C8_Witness ==
    \E w, v \in Threads :
        /\ runCPU[w].pc = "done" /\ runCPU[w].err = "freeing page: EINVAL"
        /\ runCPU[v].pc = "done" /\ runCPU[v].err = "nil"
        /\ stats.pagesAllocated > NumThreads
        /\ kOutstanding = 0

\* C9: when Run has ended, pagesAllocated = pagesFreed + the number of
\* allocations outstanding in the module, FREE_PAGE errors or not.
C9_NoLeaksAtQuiescence ==
    runRet # "running" => stats.pagesAllocated = stats.pagesFreed + kOutstanding

\* C10 as stated: if the context is cancelled and no ioctl returns an error,
\* Run returns a nil error and a Result with PagesFreed = PagesAllocated.
C10_CancelledRunNoIoctlError ==
    (runRet # "running" /\ ctxCancelled /\ ioctlFailed = 0)
        => (runRet = "result" /\ result.PagesFreed = result.PagesAllocated)

\* C10, amended: if the context is cancelled, no ioctl returns an error and no
\* worker's sched_setaffinity fails, every worker eventually returns and Run
\* returns a nil error and a Result with PagesFreed = PagesAllocated.
C10_CancelledRunReturnsResult ==
    /\ [](\A w \in Threads : runCPU[w].pc = "done" \/ runRet = "running")
    /\ []((runRet # "running" /\ ctxCancelled /\ ioctlFailed = 0 /\ pinFailed = 0)
            => (runRet = "result" /\ result.PagesFreed = result.PagesAllocated))
    /\ (ctxCancelled ~> (runRet # "running"))

C10_Witness ==
    /\ runRet = "result"
    /\ ctxCancelled /\ ioctlFailed = 0 /\ pinFailed = 0
    /\ result.PagesAllocated > NumThreads
    /\ kOutstanding = 0
\* C11: for every CPU number n, NewCPUMask(n) has bit n and only bit n set, so
\* every worker whose sched_setaffinity call succeeded may run on the CPU it
\* was started for and on no other, and two such workers never share a CPU.
C11_PinnedToOwnCPU ==
    LET pinned == {w \in Threads : runCPU[w].pc # "start" /\ runCPU[w].err # "SchedSetaffinity"}
    IN /\ \A w \in pinned : affinity[w] = {CPUOf(w)}
       /\ \A w, v \in pinned : w # v => affinity[w] \cap affinity[v] = {}

\* ================================================ linux.CPUMaskFromString
\* Texts are sequences of characters. The characters of the texts tried: CPU
\* numbers are written with these digits, "\n" is what sysfs ends a cpulist
\* with.
Digits == <<"0", "1", "2", "3", "4", "5", "6", "7", "8", "9">>
Alphabet == {"0", "1", "2", "-", ",", "\n"}
Texts == UNION {[1..n -> Alphabet] : n \in 0..MaxLen}

IsDigit(c) == \E d \in 1..10 : Digits[d] = c
DigitVal(c) == (CHOOSE d \in 1..10 : Digits[d] = c) - 1
\* unicode.IsSpace, for the characters in use
IsSpace(c) == c \in {" ", "\n", "\t", "\r"}

\* strings.TrimSpace
RECURSIVE TrimSpace(_)
TrimSpace(s) ==
    IF s = <<>> THEN s
    ELSE IF IsSpace(Head(s)) THEN TrimSpace(Tail(s))
    ELSE IF IsSpace(s[Len(s)]) THEN TrimSpace(SubSeq(s, 1, Len(s) - 1))
    ELSE s

\* strings.Cut(s, sep) for a one-character sep: (before, after, found)
Cut(s, sep) ==
    IF \E i \in 1..Len(s) : s[i] = sep
      THEN LET i == CHOOSE i \in 1..Len(s) : s[i] = sep /\ \A j \in 1..(i - 1) : s[j] # sep
           IN [before |-> SubSeq(s, 1, i - 1), after |-> SubSeq(s, i + 1, Len(s)),
               found |-> TRUE]
      ELSE [before |-> s, after |-> <<>>, found |-> FALSE]

\* strings.Split(s, sep) for a one-character sep: the text between the
\* separators, so one part more than there are separators; Split("", ",") is
\* the one-element slice [""].
RECURSIVE Split(_, _)
Split(s, sep) ==
    LET c == Cut(s, sep)
    IN IF c.found THEN <<c.before>> \o Split(c.after, sep) ELSE <<s>>

\* The number a text of decimal digits writes.
RECURSIVE Decimal(_)
Decimal(t) == IF t = <<>> THEN 0 ELSE 10 * Decimal(SubSeq(t, 1, Len(t) - 1)) + DigitVal(t[Len(t)])

\* strconv.Atoi / strconv.ParseInt(s, 10, 64): an optional sign and then one or
\* more decimal digits, nothing else; the texts tried are too short for the
\* value to be out of range.
Atoi(s) ==
    LET signed == s # <<>> /\ Head(s) \in {"+", "-"}
        digits == IF signed THEN Tail(s) ELSE s
    IN IF digits # <<>> /\ \A i \in 1..Len(digits) : IsDigit(digits[i])
         THEN [ok |-> TRUE,
               val |-> IF signed /\ Head(s) = "-" THEN 0 - Decimal(digits) ELSE Decimal(digits)]
         ELSE [ok |-> FALSE, val |-> 0]

\* `for i := fromInt; i <= toInt; i++ { mask = append(mask, uint64(i)) }`.
\* fromInt is never negative: it is written before the first "-" of its part.
RECURSIVE Range(_, _)
Range(from, to) == IF from > to THEN <<>> ELSE <<from>> \o Range(from + 1, to)

\* One turn of CPUMaskFromString's loop over the parts: the ids the part adds,
\* or the error.
ParsePart(part) ==
    LET c == Cut(part, "-")
    IN IF c.found
         THEN IF ~Atoi(c.before).ok \/ ~Atoi(c.after).ok
                THEN [err |-> TRUE, mask |-> <<>>]
                ELSE [err |-> FALSE, mask |-> Range(Atoi(c.before).val, Atoi(c.after).val)]
         ELSE IF ~Atoi(part).ok
                THEN [err |-> TRUE, mask |-> <<>>]
                ELSE [err |-> FALSE, mask |-> <<Atoi(part).val>>]

RECURSIVE ParseParts(_, _)
ParseParts(parts, mask) ==
    IF parts = <<>> THEN [err |-> FALSE, mask |-> mask]
    ELSE LET r == ParsePart(Head(parts))
         IN IF r.err THEN [err |-> TRUE, mask |-> <<>>]
            ELSE ParseParts(Tail(parts), mask \o r.mask)

\* linux.CPUMaskFromString(s): (mask, nil) or (nil, error). The CPUMask it
\* returns is the list of the CPU ids, in the order of the text.
CPUMaskFromString(s) == ParseParts(Split(TrimSpace(s), ","), <<>>)

InitL == cpulist \in Texts /\ parseRet = NotParsed

InitCpulist == InitK /\ InitW /\ InitL /\ OffN /\ OffS /\ OffF /\ OffC /\ OffB /\ OffU /\ OffT /\ OffH

ParseCpulist ==
    /\ ~parseRet.returned
    /\ parseRet' = [returned |-> TRUE, err |-> CPUMaskFromString(cpulist).err,
                    mask |-> CPUMaskFromString(cpulist).mask]
    /\ UNCHANGED cpulist
    /\ UNCHANGED notLinux

NextCpulist == ParseCpulist

SpecCpulist == InitCpulist /\ [][NextCpulist]_vars

\* The bitmap lists of the kernel's "%*pbl" format, with the leniency asked of
\* the parser: segments separated by commas, each empty, a number a, or a
\* range a-b with a <= b, and white space after the last segment.
IsNumber(t) == t # <<>> /\ \A i \in 1..Len(t) : IsDigit(t[i])
TrimRight(s) == SubSeq(s, 1, CHOOSE n \in 0..Len(s) :
                                /\ \A i \in (n + 1)..Len(s) : IsSpace(s[i])
                                /\ n > 0 => ~IsSpace(s[n]))
Segments(s) == LET parts == Split(TrimRight(s), ",") IN {parts[i] : i \in 1..Len(parts)}
IsRange(t) ==
    \E i \in 2..(Len(t) - 1) :
        /\ t[i] = "-"
        /\ IsNumber(SubSeq(t, 1, i - 1)) /\ IsNumber(SubSeq(t, i + 1, Len(t)))
        /\ Decimal(SubSeq(t, 1, i - 1)) <= Decimal(SubSeq(t, i + 1, Len(t)))
IsBitmapList(s) == \A t \in Segments(s) : t = <<>> \/ IsNumber(t) \/ IsRange(t)
SegmentIds(t) ==
    IF t = <<>> THEN {}
    ELSE IF IsNumber(t) THEN {Decimal(t)}
    ELSE LET i == CHOOSE i \in 2..(Len(t) - 1) : t[i] = "-"
         IN Decimal(SubSeq(t, 1, i - 1))..Decimal(SubSeq(t, i + 1, Len(t)))
Denoted(s) == UNION {SegmentIds(t) : t \in Segments(s)}
MaskIds(mask) == {mask[i] : i \in 1..Len(mask)}

\* C12: CPUMaskFromString accepts every bitmap list of comma-separated ranges
\* a-b and singletons a, with trailing white space and empty segments (the
\* empty list too), returns no error for it and returns exactly the CPU ids
\* the list denotes.
C12_AcceptsEveryBitmapList ==
    (parseRet.returned /\ IsBitmapList(cpulist)) =>
        (~parseRet.err /\ MaskIds(parseRet.mask) = Denoted(cpulist))

\* ======================================================= kallocfree.New
\* The cpulist files a node directory of /sys/devices/system/node can hold.
SysfsCpulists ==
    { <<"\n">>, <<"0", "\n">>, <<"1", "\n">>, <<"2", "\n">>,
      <<"0", "-", "1", "\n">>, <<"0", ",", "1", "\n">>,
      <<"1", "-", "2", "\n">>, <<"0", "-", "2", "\n">> }

\* The machines: nodes node0..node(n-1), the directories nodeSubdirRegexp
\* matches with the whole node number, each with its cpulist.
Machines == UNION {[0..(n - 1) -> SysfsCpulists] : n \in 1..MaxNodes}

\* linux.NUMANodes with the directory and the files read without error: the
\* map from node id to CPUMask, or the error of CPUMaskFromString.
NUMANodes(fs) ==
    IF \E n \in DOMAIN fs : CPUMaskFromString(fs[n]).err
      THEN [err |-> TRUE, nodes |-> NoMap]
      ELSE [err |-> FALSE, nodes |-> [n \in DOMAIN fs |-> CPUMaskFromString(fs[n]).mask]]

\* The maps the two loops of New over nodes and masks can build: every CPU
\* in some mask is a key; map iteration is in no fixed order, so a CPU in
\* several masks gets the node of any of them.
CpuToNodeMaps(nodes) ==
    LET cpus == UNION {MaskIds(nodes[n]) : n \in DOMAIN nodes}
    IN {f \in [cpus -> DOMAIN nodes] : \A c \in cpus : c \in MaskIds(nodes[f[c]])}

\* A check that finds every CPU mapped.
UnmappedNone(m) == {}

\* `for cpu := 0; cpu < runtime.NumCPU(); cpu++ { if _, ok := cpuToNode[cpu]; !ok`
Unmapped(m) == {cpu \in OnlineCPUs : cpu \notin DOMAIN m}

InitN ==
    /\ sysfs \in Machines
    /\ newRet = "none"
    /\ cpuToNode = NoMap
    /\ numaStats = [pagesAllocated |-> 0, numaRemoteAllocations |-> 0]

InitNuma == InitK /\ InitW /\ OffL /\ InitN /\ OffS /\ OffF /\ OffC /\ OffB /\ OffU /\ OffT /\ OffH

\* kallocfree.New
New ==
    /\ newRet = "none"
    /\ \E open \in {"ok", "error"}, readfs \in {"ok", "error"} :
         IF open = "error"
           THEN newRet' = "opening /proc/page_alloc_bench" /\ UNCHANGED cpuToNode
         ELSE IF readfs = "error" \/ NUMANodes(sysfs).err
           THEN newRet' = "parsing NUMA nodes" /\ UNCHANGED cpuToNode
         ELSE \E m \in CpuToNodeMaps(NUMANodes(sysfs).nodes) :
                IF Unmapped(m) # {}
                  THEN newRet' = "found no NUMA node for CPU" /\ UNCHANGED cpuToNode
                  ELSE newRet' = "ok" /\ cpuToNode' = m
    /\ UNCHANGED <<sysfs, numaStats>>
    /\ UNCHANGED notNuma

\* The nid an ALLOC_PAGE ioctl can return: `int nid; /* NUMA node ID, or -1. */`
\* (the module in this tree stores page_to_nid(page), the id of a node).
Nids == DOMAIN sysfs \cup {-1}

\* allocPageOnCPU once AllocPage has returned a page with no error, for the
\* worker of cpu: the counters. (With an error nothing is counted.)
CountAlloc(cpu, nid) ==
    /\ newRet = "ok"
    /\ numaStats.pagesAllocated < MaxAllocs
    /\ numaStats' =
         [pagesAllocated |-> numaStats.pagesAllocated + 1,
          numaRemoteAllocations |->
              IF nid # cpuToNode[cpu] THEN numaStats.numaRemoteAllocations + 1
                                      ELSE numaStats.numaRemoteAllocations]
    /\ UNCHANGED <<sysfs, newRet, cpuToNode>>
    /\ UNCHANGED notNuma

NextNuma ==
    \/ New
    \/ \E w \in Threads, nid \in Nids : CountAlloc(CPUOf(w), nid)

SpecNuma == InitNuma /\ [][NextNuma]_vars

\* C13: New returns an error if some CPU in [0, NumCPU) is in no node's
\* cpulist; it returns a Workload only if every such CPU is mapped to a node;
\* and then cpuToNode is defined for the CPU of every worker.
C13_NewChecksEveryCPU ==
    newRet # "none" =>
      /\ (\E cpu \in OnlineCPUs : \A n \in DOMAIN sysfs : cpu \notin Denoted(sysfs[n]))
            => newRet # "ok"
      /\ newRet = "ok" =>
            /\ \A cpu \in OnlineCPUs :
                  cpu \in DOMAIN cpuToNode /\ cpu \in Denoted(sysfs[cpuToNode[cpu]])
            /\ \A w \in Threads : CPUOf(w) \in DOMAIN cpuToNode

C13_Witness ==
    /\ newRet = "found no NUMA node for CPU"
    /\ \E cpu \in OnlineCPUs : \A n \in DOMAIN sysfs : cpu \notin Denoted(sysfs[n])
    /\ \E cpu \in OnlineCPUs : \E n \in DOMAIN sysfs : cpu \in Denoted(sysfs[n])

Runs == {1, 2}
\* The data: durations; the zero value of the element type is not among them.
Data == {1, 2}
Zero == 0
\* time.Now().UnixNano() when NewReservoir is called
Times == 0..(MaxTime - 1)

\* The k-th value (k = 0, 1, ...) rand.Int() returns for a generator made
\* with rand.NewSource(seed): a fixed function of the seed and k, with values
\* in [0, RandSpan).
RandInt(seed, k) == (seed * 3 + k * 5 + seed * k + 1) % RandSpan

\* sampling.NewReservoir(size), called when the clock reads now
NewReservoir(size, now) ==
    [outSamples |-> [i \in 1..size |-> Zero], numInSamples |-> 0, seed |-> now, draws |-> 0]

\* A store that writes the first slot as well.
StoreFirstToo(r, outIdx, datum) ==
    [r EXCEPT !.outSamples = [k \in DOMAIN @ |-> IF k \in {1, outIdx + 1} THEN datum ELSE @[k]]]

\* r.outSamples[outIdx] = datum, for the 0-based outIdx
Store(r, outIdx, datum) == [r EXCEPT !.outSamples[outIdx + 1] = datum]

\* Reservoir.Add(datum): the Reservoir after the call
ReservoirAdd(r, datum) ==
    LET outIdx == r.numInSamples
        counted == [r EXCEPT !.numInSamples = r.numInSamples + 1]
    IN IF outIdx >= Len(r.outSamples)
         THEN LET drawn == [counted EXCEPT !.draws = r.draws + 1]
                  randIdx == RandInt(r.seed, r.draws) % counted.numInSamples
              IN IF randIdx >= Len(r.outSamples) THEN drawn ELSE Store(drawn, randIdx, datum)
         ELSE Store(counted, outIdx, datum)

\* A Samples that returns the whole of outSamples.
SamplesWhole(r) == r.outSamples

\* Reservoir.Samples()
Samples(r) ==
    LET n == IF r.numInSamples > Len(r.outSamples) THEN Len(r.outSamples) ELSE r.numInSamples
    IN SubSeq(r.outSamples, 1, n)

InitS ==
    /\ stream \in [1..MaxStream -> Data]
    /\ \E size \in 0..MaxCap :
         reservoir \in {[run \in Runs |-> NewReservoir(size, now[run])] : now \in [Runs -> Times]}
    /\ adds = [run \in Runs |-> 0]

InitSampling == InitK /\ InitW /\ OffL /\ OffN /\ InitS /\ OffF /\ OffC /\ OffB /\ OffU /\ OffT /\ OffH

\* One run passes the next datum of the stream to its Reservoir.
Add(run) ==
    /\ adds[run] < Len(stream)
    /\ reservoir' = [reservoir EXCEPT ![run] = ReservoirAdd(@, stream[adds[run] + 1])]
    /\ adds' = [adds EXCEPT ![run] = @ + 1]
    /\ UNCHANGED stream
    /\ UNCHANGED notSampling

NextSampling == \E run \in Runs : Add(run)

SpecSampling == InitSampling /\ [][NextSampling]_vars

\* C15: for a Reservoir of capacity K, after n calls of Add, Samples() has
\* min(n, K) elements; while n <= K it is the added data in order; and every
\* element of it is a datum that was passed to Add.
C15_ReservoirSize ==
    \A run \in Runs :
        LET n == adds[run]
            K == Len(reservoir[run].outSamples)
            S == Samples(reservoir[run])
        IN /\ Len(S) = IF n < K THEN n ELSE K
           /\ n <= K => S = SubSeq(stream, 1, n)
           /\ \A i \in 1..Len(S) : \E j \in 1..n : S[i] = stream[j]

C15_Witness ==
    \E run \in Runs :
        LET K == Len(reservoir[run].outSamples)
        IN /\ K >= 1 /\ adds[run] > K
           /\ Samples(reservoir[run]) # SubSeq(stream, 1, K)
           /\ reservoir[run].draws > 1

\* C16: two reservoirs of the same capacity that were passed the same data,
\* in two runs of the same build, have made the same choices and return the
\* same Samples().
C16_SameTrajectory ==
    adds[1] = adds[2] =>
        /\ reservoir[1].outSamples = reservoir[2].outSamples
        /\ Samples(reservoir[1]) = Samples(reservoir[2])

\* ========================================================= findlimit.Run
\* What the child can write: digits, a sign, a character of no number, white
\* space and line ends.
OutAlphabet == {"1", "-", "x", " ", "\n"}
Outputs == UNION {[1..n -> OutAlphabet] : n \in 0..MaxOut}

\* How the child can end: by exit with a status, or killed by a signal: by the
\* kernel's OOM killer (SIGKILL), by exec.CommandContext when the context is
\* done (SIGKILL), or by any other signal.
Terminations ==
    { [kind |-> "exit", status |-> 0], [kind |-> "exit", status |-> 1],
      [kind |-> "signal", signal |-> "SIGKILL", by |-> "oom-killer"],
      [kind |-> "signal", signal |-> "SIGKILL", by |-> "context"],
      [kind |-> "signal", signal |-> "SIGSEGV", by |-> "fault"] }

\* bufio.ScanLines over the whole output: the text between line ends, without
\* a trailing "\r"; what follows the last line end is a line if it is not
\* empty.
DropCR(t) == IF t # <<>> /\ t[Len(t)] = "\r" THEN SubSeq(t, 1, Len(t) - 1) ELSE t
RECURSIVE ScanLines(_)
ScanLines(out) ==
    LET c == Cut(out, "\n")
    IN IF c.found THEN <<DropCR(c.before)>> \o ScanLines(c.after)
       ELSE IF out = <<>> THEN <<>> ELSE <<DropCR(out)>>

\* readLastLine when the scanner meets no error
readLastLine(out) ==
    LET lines == ScanLines(out) IN IF lines = <<>> THEN <<>> ELSE lines[Len(lines)]

\* A ProcessState that never reports an exit.
ExitedNever(term) == FALSE

\* cmd.ProcessState.Exited()
Exited(term) == term.kind = "exit"

\* cmd.Wait(): nil for exit status 0, unless something else went wrong (the
\* context was done); an *exec.ExitError for every other end of the child.
WaitErrs(term) ==
    IF term.kind = "exit" /\ term.status = 0 THEN {"nil", "other"} ELSE {"ExitError"}

Failed(kind, fault, quoted) ==
    [returned |-> TRUE, kind |-> kind, Allocated |-> 0, quoted |-> quoted, fault |-> fault]

\* findlimit.Run from cmd.Wait on, for the last line read
AfterWait(term, waitErr, lastLine) ==
    IF waitErr = "nil" THEN Failed("expected OOM-kill, but it succeeded", "none", <<>>)
    ELSE IF waitErr # "ExitError" THEN Failed("unexpected error waiting", "wait", <<>>)
    ELSE IF Exited(term) THEN Failed("expected kill by signal, but it exited", "none", <<>>)
    ELSE IF ~Atoi(TrimSpace(lastLine)).ok
      THEN Failed("parsing last line as int", "none", lastLine)
    ELSE [returned |-> TRUE, kind |-> "Result", Allocated |-> Atoi(TrimSpace(lastLine)).val,
          quoted |-> <<>>, fault |-> "none"]

InitF == childOut \in Outputs /\ childTerm \in Terminations /\ flRet = NotRun

InitFindlimit == InitK /\ InitW /\ OffL /\ OffN /\ OffS /\ InitF /\ OffC /\ OffB /\ OffU /\ OffT /\ OffH

\* findlimit.Run. The steps that can fail before the child runs: os.Executable,
\* cmd.StdoutPipe, cmd.Start. With the child running, the scanner can fail (a
\* read error, a line longer than bufio.MaxScanTokenSize).
FindlimitRun ==
    /\ ~flRet.returned
    /\ \E fault \in {"none", "executable", "pipe", "start", "read"},
          waitErr \in WaitErrs(childTerm) :
         flRet' =
           CASE fault = "executable" -> Failed("getting executable path", fault, <<>>)
             [] fault = "pipe" -> Failed("setting up stdout pipe", fault, <<>>)
             [] fault = "start" -> Failed("starting workload subprocess", fault, <<>>)
             [] fault = "read" -> Failed("reading workload subprocess output", fault, <<>>)
             [] OTHER -> AfterWait(childTerm, waitErr, readLastLine(childOut))
    /\ UNCHANGED <<childOut, childTerm>>
    /\ UNCHANGED notFindlimit

NextFindlimit == FindlimitRun

SpecFindlimit == InitFindlimit /\ [][NextFindlimit]_vars

\* The child ran: Run got as far as starting it.
ChildRan == flRet.returned /\ flRet.fault \notin {"executable", "pipe", "start"}

\* The last line of a text: what follows its last line end, or, if the text
\* ends with a line end, what is between the last two.
LastLine(out) ==
    LET body == IF out # <<>> /\ out[Len(out)] = "\n" THEN SubSeq(out, 1, Len(out) - 1) ELSE out
        from == CHOOSE i \in 0..Len(body) :
                    /\ i > 0 => body[i] = "\n"
                    /\ \A j \in (i + 1)..Len(body) : body[j] # "\n"
    IN SubSeq(body, from + 1, Len(body))

\* A decimal integer, with white space around it: an optional sign and digits.
Unsigned(t) == IF t # <<>> /\ Head(t) \in {"+", "-"} THEN Tail(t) ELSE t
IsInteger(t) == IsNumber(Unsigned(TrimSpace(t)))
IntegerOf(t) ==
    IF Head(TrimSpace(t)) = "-" THEN 0 - Decimal(Unsigned(TrimSpace(t)))
                               ELSE Decimal(Unsigned(TrimSpace(t)))

\* The parts of C17 other than its "if": a Result only for a child killed by a
\* signal whose last line is an integer, and then that integer; an error for
\* every child that exits; an error quoting the last line for a child killed
\* by a signal whose last line is no integer.
FindlimitOnlyIf ==
    /\ flRet.kind = "Result" =>
          /\ ChildRan /\ childTerm.kind = "signal" /\ IsInteger(LastLine(childOut))
          /\ flRet.Allocated = IntegerOf(LastLine(childOut))
    /\ (ChildRan /\ childTerm.kind = "exit") => flRet.kind # "Result"
    /\ (ChildRan /\ flRet.fault = "none" /\ childTerm.kind = "signal"
           /\ ~IsInteger(LastLine(childOut))) =>
          (flRet.kind = "parsing last line as int" /\ flRet.quoted = LastLine(childOut))

\* C17 as stated: Run returns a Result if and only if the child was killed by
\* a signal and the last line of its stdout, trimmed, is a decimal integer,
\* and then Allocated is that integer; a child that exits yields an error; a
\* child killed by a signal whose last line is empty or no integer yields an
\* error that quotes the line.
C17_ResultIffSignalAndInteger ==
    flRet.returned =>
      /\ FindlimitOnlyIf
      /\ (ChildRan /\ childTerm.kind = "signal" /\ IsInteger(LastLine(childOut)))
            => flRet.kind = "Result"

\* C17, amended: the same, for a child whose stdout the parent read to the
\* end without a scanner error.
C17_ResultIffSignalIntegerAndRead ==
    flRet.returned =>
      /\ FindlimitOnlyIf
      /\ (ChildRan /\ flRet.fault # "read" /\ childTerm.kind = "signal"
            /\ IsInteger(LastLine(childOut)))
            => flRet.kind = "Result"

C17_Witness ==
    /\ flRet.kind = "Result" /\ flRet.Allocated = 11
    /\ Len(ScanLines(childOut)) = 2

\* C18: a child killed by a signal that is not the OOM killer's never yields a
\* Result: Run returns an error for it.
C18_NonOomSignalIsError ==
    (flRet.returned /\ ChildRan /\ childTerm.kind = "signal" /\ childTerm.by # "oom-killer")
        => flRet.kind # "Result"

\* ====================================================== composite: run
\* The context the errgroup's goroutines and AwaitSteadyState see is done: by
\* the deadline, by cancel(), or by the errgroup on the first error. Before
\* the errgroup is made no error is pending and cancel() does not exist, so
\* this is the deadline alone.
CtxDone == deadline \/ cancelled \/ compErr # "nil"

\* run or one of its goroutines fails with e: the first error is kept.
FirstErr(e) == IF compErr = "nil" THEN e ELSE compErr

\* All of the workload's workers are running and have reached steady state.
PastSteady == kaf = "running" /\ kafSteady

InitC ==
    /\ compPc = "New" /\ deadline = FALSE /\ cancelled = FALSE /\ compErr = "nil"
    /\ kaf = "notStarted" /\ kafSteady = FALSE /\ flRunning = "none"
    /\ antagPc = "none" /\ compResult = NoResult /\ measuredOff = FALSE

InitComposite == InitK /\ InitW /\ OffL /\ OffN /\ OffS /\ OffF /\ InitC /\ OffB /\ OffU /\ OffT /\ OffH

\* run: kallocfree.New
CompositeNew ==
    /\ compPc = "New"
    /\ \E err \in {"nil", "setting up kallocfree workload"} :
         /\ compErr' = err
         /\ compPc' = IF err = "nil" THEN "idle" ELSE "returned"
    /\ UNCHANGED <<deadline, cancelled, kaf, kafSteady, flRunning, antagPc, compResult,
                   measuredOff>>
    /\ UNCHANGED notComposite

\* repeatFindlimit of the idle phase, at the head of its loop: it returns nil
\* after the last iteration or when the context is done, or calls
\* findlimit.Run.
IdleLoop ==
    /\ compPc = "idle" /\ flRunning = "none"
    /\ IF Len(compResult.IdleAvailableBytes) >= Iterations \/ CtxDone
         THEN compPc' = "eg.Go Run" /\ UNCHANGED flRunning
         ELSE flRunning' = "initial" /\ UNCHANGED compPc
    /\ UNCHANGED <<deadline, cancelled, compErr, kaf, kafSteady, antagPc, compResult,
                   measuredOff>>
    /\ UNCHANGED notComposite

\* What findlimit.Run returns to repeatFindlimit. "Result": the child was
\* killed by the OOM killer and its last line is an integer. "error": the run
\* failed on its own (the child could not be started, or exited). When the
\* context was done during the run, exec.CommandContext killed the child:
\* "killed" if the last line read is not an integer (the child had not
\* printed one yet), which is the error of ParseInt, and "Result of a killed
\* child" if it is, which Run cannot tell from "Result".
FindlimitReturns(done) ==
    {"Result", "error"} \cup (IF done THEN {"killed", "Result of a killed child"} ELSE {})

\* The returns that are a *Result with a nil error
IsResult(r) == r \in {"Result", "Result of a killed child"}

\* findlimitResult.Allocated.Bytes(): the count the child printed last
AllocatedBytes(r) == IF r = "Result" THEN "bytes" ELSE "bytes of a killed child"

\* repeatFindlimit's error for a run of the phase desc.
FindlimitErr(desc, r) ==
    desc \o " findlimit run" \o (IF r = "killed" THEN ": parsing last line" ELSE "")

\* findlimit.Run of the idle phase returns: a Result, which is appended, or an
\* error, which run returns. Its context is doMain's, done at the deadline.
IdleFindlimitReturn ==
    /\ flRunning = "initial"
    /\ flRunning' = "none"
    /\ \E r \in FindlimitReturns(deadline) :
         IF IsResult(r)
           THEN /\ compResult' = [compResult EXCEPT
                                    !.IdleAvailableBytes = Append(@, AllocatedBytes(r))]
                /\ UNCHANGED <<compPc, compErr>>
           ELSE /\ compPc' = "returned" /\ compErr' = FindlimitErr("initial", r)
                /\ UNCHANGED compResult
    /\ UNCHANGED <<deadline, cancelled, kaf, kafSteady, antagPc, measuredOff>>
    /\ UNCHANGED notComposite

\* run: context.WithCancel, errgroup.WithContext, eg.Go(kallocFree.Run)
LaunchKallocfree ==
    /\ compPc = "eg.Go Run"
    /\ kaf' = "running"
    /\ compPc' = "AwaitSteadyState"
    /\ UNCHANGED <<deadline, cancelled, compErr, kafSteady, flRunning, antagPc, compResult,
                   measuredOff>>
    /\ UNCHANGED notComposite

\* The last of the workload's workers reaches steady state: the channel is
\* closed.
KafSteadyState ==
    /\ kaf = "running" /\ ~kafSteady
    /\ kafSteady' = TRUE
    /\ UNCHANGED <<compPc, deadline, cancelled, compErr, kaf, flRunning, antagPc, compResult,
                   measuredOff>>
    /\ UNCHANGED notComposite

\* kallocFree.Run returns in its goroutine: with an error, when a worker
\* failed, or with its Result, when the context is done; the goroutine adds
\* the Result to the composite's.
KafReturn ==
    /\ kaf = "running"
    /\ kaf' = "returned"
    /\ \E r \in {"error"} \cup (IF CtxDone THEN {"Result"} ELSE {}) :
         IF r = "Result"
           THEN /\ compResult' = [compResult EXCEPT
                                    !.KernelPageAllocs = @ + 1,
                                    !.KernelPageAllocLatenciesNS = Append(@, "ns")]
                /\ UNCHANGED compErr
           ELSE /\ compErr' = FirstErr("kallocfree")
                /\ UNCHANGED compResult
    /\ measuredOff' = (measuredOff \/ flRunning = "antagonized")
    /\ UNCHANGED <<compPc, deadline, cancelled, kafSteady, flRunning, antagPc>>
    /\ UNCHANGED notComposite

\* An AwaitSteadyState that returns at once.
AwaitAtOnce(steady, done) == TRUE

\* AwaitSteadyState's select: `case <-ctx.Done()` or `case <-w.steadyStateReached`
AwaitReady(steady, done) == steady \/ done

\* run: kallocFree.AwaitSteadyState(ctx) returns
AwaitSteady ==
    /\ compPc = "AwaitSteadyState"
    /\ AwaitReady(kafSteady, CtxDone)
    /\ compPc' = "eg.Go antagonized"
    /\ UNCHANGED <<deadline, cancelled, compErr, kaf, kafSteady, flRunning, antagPc,
                   compResult, measuredOff>>
    /\ UNCHANGED notComposite

\* run: eg.Go of the antagonised phase; run goes on to eg.Wait
LaunchAntagonized ==
    /\ compPc = "eg.Go antagonized"
    /\ antagPc' = "loop"
    /\ compPc' = "eg.Wait"
    /\ UNCHANGED <<deadline, cancelled, compErr, kaf, kafSteady, flRunning, compResult,
                   measuredOff>>
    /\ UNCHANGED notComposite

\* repeatFindlimit of the antagonised phase, at the head of its loop: when it
\* returns nil the goroutine calls cancel() and returns.
AntagonizedLoop ==
    /\ antagPc = "loop" /\ flRunning = "none"
    /\ IF Len(compResult.AntagonizedAvailableBytes) >= Iterations \/ CtxDone
         THEN /\ cancelled' = TRUE /\ antagPc' = "done"
              /\ UNCHANGED <<flRunning, measuredOff>>
         ELSE /\ flRunning' = "antagonized"
              /\ measuredOff' = (measuredOff \/ ~PastSteady)
              /\ UNCHANGED <<cancelled, antagPc>>
    /\ UNCHANGED <<compPc, deadline, compErr, kaf, kafSteady, compResult>>
    /\ UNCHANGED notComposite

\* findlimit.Run of the antagonised phase returns: a Result, which is
\* appended, or an error, which the goroutine returns to the errgroup.
AntagonizedFindlimitReturn ==
    /\ flRunning = "antagonized"
    /\ flRunning' = "none"
    /\ \E r \in FindlimitReturns(CtxDone) :
         IF IsResult(r)
           THEN /\ compResult' = [compResult EXCEPT
                                    !.AntagonizedAvailableBytes = Append(@, AllocatedBytes(r))]
                /\ UNCHANGED <<antagPc, compErr>>
           ELSE /\ antagPc' = "done" /\ compErr' = FirstErr(FindlimitErr("antagonized", r))
                /\ UNCHANGED compResult
    /\ UNCHANGED <<compPc, deadline, cancelled, kaf, kafSteady, measuredOff>>
    /\ UNCHANGED notComposite

\* run: eg.Wait returns when both goroutines have; run returns, and its
\* deferred cancel() runs.
CompositeWait ==
    /\ compPc = "eg.Wait" /\ kaf = "returned" /\ antagPc = "done"
    /\ compPc' = "returned"
    /\ cancelled' = TRUE
    /\ UNCHANGED <<deadline, compErr, kaf, kafSteady, flRunning, antagPc, compResult,
                   measuredOff>>
    /\ UNCHANGED notComposite

\* doMain's context.WithTimeout expires.
Deadline ==
    /\ compPc # "returned" /\ ~deadline
    /\ deadline' = TRUE
    /\ UNCHANGED <<compPc, cancelled, compErr, kaf, kafSteady, flRunning, antagPc,
                   compResult, measuredOff>>
    /\ UNCHANGED notComposite

NextComposite ==
    \/ CompositeNew
    \/ IdleLoop
    \/ IdleFindlimitReturn
    \/ LaunchKallocfree
    \/ KafSteadyState
    \/ KafReturn
    \/ AwaitSteady
    \/ LaunchAntagonized
    \/ AntagonizedLoop
    \/ AntagonizedFindlimitReturn
    \/ CompositeWait
    \/ Deadline

SpecComposite == InitComposite /\ [][NextComposite]_vars

\* An antagonised findlimit run has started.
AntagonizedStarted ==
    flRunning = "antagonized" \/ compResult.AntagonizedAvailableBytes # <<>>

\* The parts of C19 after the first: no antagonised run starts before
\* AwaitSteadyState has returned; the workload's context is cancelled only
\* after the last antagonised run, or after an error or the deadline; with no
\* error and no deadline every antagonised run is made while all workers are
\* running past steady state.
PhaseOrderAfterLaunch ==
    /\ AntagonizedStarted => compPc \in {"eg.Wait", "returned"}
    /\ cancelled => \/ (antagPc = "done" /\ flRunning = "none")
                    \/ compErr # "nil"
                    \/ deadline
    /\ (~deadline /\ compErr = "nil") => ~measuredOff

\* C19 as stated: all the idle findlimit runs are complete before the
\* kallocfree workload is started, and the rest of the phase order.
C19_PhaseOrder ==
    /\ kaf # "notStarted" => Len(compResult.IdleAvailableBytes) = Iterations
    /\ PhaseOrderAfterLaunch

\* C19, amended: unless the deadline has fired, all the idle findlimit runs
\* are complete before the kallocfree workload is started; and the rest of the
\* phase order.
C19_PhaseOrderUnlessDeadline ==
    /\ (kaf # "notStarted" /\ ~deadline) => Len(compResult.IdleAvailableBytes) = Iterations
    /\ PhaseOrderAfterLaunch

C19_Witness ==
    /\ compPc = "returned" /\ compErr = "nil" /\ ~deadline
    /\ Len(compResult.IdleAvailableBytes) = Iterations
    /\ Len(compResult.AntagonizedAvailableBytes) = Iterations
    /\ compResult.KernelPageAllocs = 1

\* json.Marshal(result) in writeOutput: the object's keys are the json tags
\* of Result's fields (a key is written as the sequence of its parts), its
\* values the arrays and numbers of the fields.
Marshal(r) ==
    [key \in {<<"idle_available_bytes">>, <<"antagonized_available_bytes">>,
              <<"kernel_page_allocs">>, <<"kernel_page_allocs_remote">>,
              <<"kernel_page_alloc_latencies_ns">>} |->
        CASE key = <<"idle_available_bytes">> -> r.IdleAvailableBytes
          [] key = <<"antagonized_available_bytes">> -> r.AntagonizedAvailableBytes
          [] key = <<"kernel_page_allocs">> -> r.KernelPageAllocs
          [] key = <<"kernel_page_allocs_remote">> -> r.KernelPageAllocsRemote
          [] OTHER -> r.KernelPageAllocLatenciesNS]

\* The allocation orders a run is asked for, and the key of a metric for one.
RequestedOrders == {0, 4}
OrderKey(metric, order) == <<metric, "_order", order>>

\* C20: a composite run that finishes without error or timeout writes, for
\* every requested order O, the keys idle_available_bytes_orderO and
\* antagonized_available_bytes_orderO with one value per iteration each, and
\* the scalar kernel metrics of order O.
C20_PerOrderKeys ==
    (compPc = "returned" /\ compErr = "nil" /\ ~deadline) =>
        \A order \in RequestedOrders :
            LET json == Marshal(compResult)
                idle == OrderKey("idle_available_bytes", order)
                antagonized == OrderKey("antagonized_available_bytes", order)
            IN /\ idle \in DOMAIN json /\ Len(json[idle]) = Iterations
               /\ antagonized \in DOMAIN json /\ Len(json[antagonized]) = Iterations
               /\ OrderKey("kernel_page_allocs", order) \in DOMAIN json
               /\ OrderKey("kernel_page_allocs_remote", order) \in DOMAIN json

(***************************************************************************)
(* The deadline of a composite run                                         *)
(***************************************************************************)

\* The errors run returns because something failed on its own: the setup of
\* the workload, a findlimit run, or the kallocfree workload.
OwnFailures ==
    {"setting up kallocfree workload", FindlimitErr("initial", "error"),
     FindlimitErr("antagonized", "error"), "kallocfree"}

\* C21: when the deadline has fired during a composite run in which nothing
\* fails on its own, run returns the partial result and no error.
C21_DeadlineReturnsPartial ==
    (compPc = "returned" /\ deadline /\ compErr \notin OwnFailures) => compErr = "nil"

(***************************************************************************)
(* Errors of the kallocfree workers                                        *)
(***************************************************************************)

\* The workers whose function returns, or has returned, a non-nil error.
FailedWorkers == {w \in Threads : runCPU[w].err # "nil"}

\* C22: when a worker fails with an error that is not the cancellation, the
\* errgroup's context is cancelled once the worker has returned, the first
\* error is kept, every worker eventually stops, having passed each page it
\* still held to FreePage, and Run returns the first error and no Result.
C22_FirstErrorStopsAll ==
    /\ [](egErr # "nil" =>
            /\ egCancelled
            /\ \E w \in FailedWorkers : runCPU[w].pc = "done" /\ runCPU[w].err = egErr)
    /\ [](\A w \in FailedWorkers : runCPU[w].pc = "done" => egErr # "nil")
    /\ [][egErr # "nil" => egErr' = egErr]_vars
    /\ [](\A w \in Threads :
            runCPU[w].pc = "done" => runCPU[w].pages = <<>> /\ abandoned[w] = {})
    /\ []((runRet # "running" /\ egErr # "nil") => (runRet = "error" /\ result = NilResult))
    /\ (FailedWorkers # {}) ~>
           (runRet = "error" /\ \A w \in Threads : runCPU[w].pc = "done")

C22_Witness ==
    \E w, v \in Threads :
        /\ runRet = "error" /\ ~ctxCancelled
        /\ runCPU[w].err = "allocating page: ENOMEM" /\ egErr = runCPU[w].err
        /\ runCPU[v].err = "nil" /\ runCPU[v].pc = "done" /\ everMiddle[v]
        /\ kOutstanding = 0

\* C23: a FREE_PAGE that returns an error in a worker's burst loop, the first
\* one included, does not stop the worker: no runCPU returns a free error, and
\* so none cancels the workload through the errgroup.
C23_FreeErrorKeepsRunning ==
    /\ \A w \in Threads : runCPU[w].err # "freeing page: EINVAL"
    /\ egErr # "freeing page: EINVAL"

\* The workers that have written the free-error message to stderr in their
\* burst loop: freePageOnCPU returns an error only on the path that writes
\* it, and runCPU returns that error as "freeing page".
LoggedInBurst == {w \in Threads : runCPU[w].err = "freeing page: EINVAL"}

\* C24: whatever the number of workers whose FREE_PAGE calls fail, the free
\* error message is written to stderr at most once.
C24_FreeErrorLoggedOnce == Cardinality(LoggedInBurst) <= 1

(***************************************************************************)
(* allocPageOnCPU and its backoff                                          *)
(*                                                                         *)
(* In SpecWork the errors of kmod.AllocPage are those of linux.Ioctl, which *)
(* never wrap their errno, so allocPageOnCPU never retries there. Here     *)
(* allocPageOnCPU is run against a kmod.AllocPage that does what its       *)
(* comment says ("Returned errors will wrap a syscall.Errno"), as when     *)
(* ENOMEM is injected at the ioctl wrapper. One call is followed from its  *)
(* first kmod.AllocPage to what runCPU does with its result.               *)
(***************************************************************************)

\* time.Duration is an int64 count of nanoseconds. TLC's integers are
\* narrower, so a Duration is held as its 64 bits in two's complement:
\* NumLimbs digits of base Limb, lowest first.
Limb == 65536
NumLimbs == 4
Limbs == 1..NumLimbs

\* 500 * time.Millisecond = 500000000 = 7629 * 65536 + 25856
HalfSecond == <<25856, 7629, 0, 0>>

One64 == [i \in Limbs |-> IF i = 1 THEN 1 ELSE 0]

\* x + y on int64: digits i and up, wrapping around at 2^64
RECURSIVE AddFrom(_, _, _, _)
AddFrom(x, y, i, carry) ==
    IF i > NumLimbs
      THEN <<>>
      ELSE LET sum == x[i] + y[i] + carry
           IN <<sum % Limb>> \o AddFrom(x, y, i + 1, sum \div Limb)

Add64(x, y) == AddFrom(x, y, 1, 0)

\* The sign bit
IsNegative(x) == x[NumLimbs] >= Limb \div 2

\* -x
Negate64(x) == Add64([i \in Limbs |-> Limb - 1 - x[i]], One64)

\* x >> 1 for x >= 0
ShiftRight(x) ==
    [i \in Limbs |-> (x[i] \div 2) + (IF i < NumLimbs THEN (x[i + 1] % 2) * (Limb \div 2) ELSE 0)]

\* x / 2 on int64: Go's division truncates toward zero
Half64(x) == IF IsNegative(x) THEN Negate64(ShiftRight(Negate64(x))) ELSE ShiftRight(x)

\* backoff += backoff / 2
NextBackoff(b) == Add64(b, Half64(b))

\* What the stubbed kmod.AllocPage returns: a page, or an error that wraps
\* ENOMEM or another errno.
StubResults == {"page", "ENOMEM", "EINVAL"}

InitB ==
    /\ boPc = "AllocPage" /\ backoff = HalfSecond /\ boTimer = "none" /\ boCtxDone = FALSE
    /\ allocCalls = 0 /\ allocFailures = 0 /\ boRet = NoRet
    /\ rc \in [pages : 0..MaxPages, freed : {0}, ret : {"running"}]

InitBackoff == InitK /\ InitW /\ OffL /\ OffN /\ OffS /\ OffF /\ OffC /\ InitB /\ OffU /\ OffT /\ OffH

\* allocPageOnCPU's loop up to the select: kmod.AllocPage, errors.Is,
\* allocFailures.Add(1), time.After(backoff); or the break and what follows.
AllocPageCall ==
    /\ boPc = "AllocPage"
    /\ \E res \in StubResults :
         /\ res = "ENOMEM" => allocFailures < MaxRetries
         /\ allocCalls' = allocCalls + 1
         /\ IF res = "ENOMEM"
              THEN /\ allocFailures' = allocFailures + 1
                   /\ boTimer' = "running"
                   /\ boPc' = "select"
                   /\ UNCHANGED boRet
              ELSE /\ boRet' = [kind |-> IF res = "page" THEN "page"
                                                          ELSE "allocating page: " \o res,
                                woke |-> boRet.woke]
                   /\ boPc' = "returned"
                   /\ UNCHANGED <<allocFailures, boTimer>>
    /\ UNCHANGED <<backoff, boCtxDone, rc>>
    /\ UNCHANGED notBackoff

\* The timer of time.After(backoff) expires.
TimerFires ==
    /\ boTimer = "running"
    /\ boTimer' = "fired"
    /\ UNCHANGED <<boPc, backoff, boCtxDone, allocCalls, allocFailures, boRet, rc>>
    /\ UNCHANGED notBackoff

\* The context of Run is cancelled.
CtxCancel ==
    /\ ~boCtxDone /\ boPc \notin {"appended", "runCPU returned"}
    /\ boCtxDone' = TRUE
    /\ UNCHANGED <<boPc, backoff, boTimer, allocCalls, allocFailures, boRet, rc>>
    /\ UNCHANGED notBackoff

\* A time.Sleep(backoff) in place of the select.
SleepReady(case, fired, done) == case = "time.After" /\ fired

\* select { case <-time.After(backoff): ...; case <-ctx.Done(): ... }: the
\* cases that can be taken
SelectReady(case, fired, done) ==
    \/ case = "time.After" /\ fired
    \/ case = "ctx.Done" /\ done

\* allocPageOnCPU's select returns by one of its ready cases.
BackoffSelect ==
    /\ boPc = "select"
    /\ \E case \in {"time.After", "ctx.Done"} :
         /\ SelectReady(case, boTimer = "fired", boCtxDone)
         /\ IF case = "time.After"
              THEN /\ backoff' = NextBackoff(backoff)
                   /\ boPc' = "AllocPage"
                   /\ UNCHANGED boRet
              ELSE /\ boRet' = [kind |-> "ctx.Err", woke |-> "ctx.Done"]
                   /\ boPc' = "returned"
                   /\ UNCHANGED backoff
    /\ boTimer' = "none"
    /\ UNCHANGED <<boCtxDone, allocCalls, allocFailures, rc>>
    /\ UNCHANGED notBackoff

\* runCPU with allocPageOnCPU's result: a page is appended and the loop goes
\* on; on an error runCPU returns nil if ctx.Err() != nil and the error
\* otherwise, and its deferred function calls freePageOnCPU for every page.
RunCPUAfterAlloc ==
    /\ boPc = "returned"
    /\ IF boRet.kind = "page"
         THEN /\ rc' = [rc EXCEPT !.pages = @ + 1]
              /\ boPc' = "appended"
         ELSE /\ rc' = [rc EXCEPT !.ret = IF boCtxDone THEN "nil" ELSE boRet.kind,
                                   !.freed = rc.pages]
              /\ boPc' = "runCPU returned"
    /\ UNCHANGED <<backoff, boTimer, boCtxDone, allocCalls, allocFailures, boRet>>
    /\ UNCHANGED notBackoff

NextBackoffStep ==
    \/ AllocPageCall
    \/ TimerFires
    \/ CtxCancel
    \/ BackoffSelect
    \/ RunCPUAfterAlloc

SpecBackoff == InitBackoff /\ [][NextBackoffStep]_vars

\* The worker's OS thread runs and its ioctls return; nothing makes a timer
\* expire or the context be cancelled.
SpecBackoffFair ==
    /\ SpecBackoff
    /\ WF_vars(AllocPageCall) /\ WF_vars(BackoffSelect) /\ WF_vars(RunCPUAfterAlloc)

C26_CancelledBackoffReturns ==
    /\ [](boRet.woke = "ctx.Done" =>
            /\ boPc \in {"returned", "runCPU returned"}
            /\ boPc = "runCPU returned" => (rc.ret = "nil" /\ rc.freed = rc.pages))
    /\ [][boRet.woke = "ctx.Done" => allocCalls' = allocCalls]_vars
    /\ (boPc = "select" /\ boCtxDone) ~> (boRet.woke = "ctx.Done" \/ boTimer = "none")
    /\ (boRet.woke = "ctx.Done") ~> (boPc = "runCPU returned")

C26_Witness ==
    /\ boRet.woke = "ctx.Done" /\ boPc = "runCPU returned"
    /\ rc.ret = "nil" /\ rc.pages = MaxPages /\ rc.freed = MaxPages
    /\ allocFailures >= 2 /\ allocCalls = allocFailures

(***************************************************************************)
(* The legacy FREE_PAGE interface                                          *)
(***************************************************************************)

\* C27: with --kmod-legacy-free-page every free ioctl is
\* PAB_IOCTL_FREE_PAGE_LEGACY with the page's raw id as its argument, no free
\* latency is added to a reservoir, and when Run has ended without a failed
\* ioctl every allocated page has been freed: pagesFreed = pagesAllocated and
\* the module holds no block.
C27_LegacyFreePath ==
    flags.legacyFreePageInterface =>
        /\ freeIoctls \subseteq {<<"PAB_IOCTL_FREE_PAGE_LEGACY", "page.id">>}
        /\ stats.freeLatencies = 0
        /\ (runRet # "running" /\ ioctlFailed = 0) =>
              (stats.pagesFreed = stats.pagesAllocated /\ kOutstanding = 0)

C27_Witness ==
    /\ flags.legacyFreePageInterface /\ flags.measureLatencies
    /\ runRet = "result" /\ ioctlFailed = 0
    /\ result.PagesFreed = result.PagesAllocated /\ result.PagesAllocated > NumThreads
    /\ freeIoctls # {}

(***************************************************************************)
(* The frame of ALLOC_PAGE and FREE_PAGE, and module exit                  *)
(***************************************************************************)

\* The lists block p is linked into after the step.
ListsOfNext(p) == {c \in CPUs : p \in alloced_pages'[c].pages}

\* C28: an ALLOC_PAGE whose alloc_pages fails returns -ENOMEM and changes no
\* list (nor any block's record); one that succeeds adds its block, recording
\* the requested order, to exactly one list: that of the CPU the thread is on
\* when it executes list_add, taking that list's lock in the step and holding
\* it until the back-reference is set, and it changes no other list.
C28_AllocPageFrame ==
    /\ [][(AllocPageEnter /\ last' # last /\ last'.ret = "-ENOMEM") =>
             (alloced_pages' = alloced_pages /\ ap' = ap /\ owned' = owned)]_vars
    /\ [][\A p \in PageIds :
             (call[p].pc = "a_lock" /\ call'[p].pc # "a_lock") =>
                LET c == call'[p].cpu IN
                /\ call'[p].ran = c
                /\ ListsOf(p) = {} /\ ListsOfNext(p) = {c}
                /\ ~alloced_pages[c].lock /\ alloced_pages'[c].lock
                /\ alloced_pages'[c].pages = alloced_pages[c].pages \cup {p}
                /\ \A d \in CPUs \ {c} : alloced_pages'[d] = alloced_pages[d]]_vars
    /\ [](\A p \in PageIds : call[p].pc \in {"a_aps", "a_out"} =>
            /\ ListsOf(p) = {call[p].cpu}
            /\ ap[p].order \in Orders /\ owned[p] = Pow2(ap[p].order)
            /\ call[p].pc = "a_aps" => alloced_pages[call[p].cpu].lock)

C28_Witness ==
    \E p, q \in PageIds :
        /\ call[p].pc = "a_aps" /\ ap[p].order = MaxOrder
        /\ call[p].cpu # ap[q].aps /\ q \in userIds
        /\ last.cmd = "alloc" /\ last.ret = "-ENOMEM"

\* A step of an ioctl mutates the list of CPU c.
ListMutated(c) == alloced_pages'[c].pages # alloced_pages[c].pages

\* C29: a FREE_PAGE on an outstanding id unlinks the block from the list its
\* back-reference names, taking that list's lock in the step, whichever CPU
\* the block was allocated on; it changes no other block's list membership; and it
\* releases the block at the order recorded when it was allocated, so nothing
\* of it stays with the module. While ioctls are in flight, every step that
\* mutates a list is made by a call that takes that list's lock in the step
\* and holds it afterwards.
C29_FreePageFrame ==
    /\ [][\A p \in PageIds :
             (call[p].pc = "f_lock" /\ call'[p].pc # "f_lock") =>
                LET c == ap[p].aps IN
                /\ c \in CPUs /\ ListsOf(p) = {c} /\ ListsOfNext(p) = {}
                /\ call'[p].cpu = c
                /\ ~alloced_pages[c].lock /\ alloced_pages'[c].lock
                /\ \A q \in PageIds \ {p} : ListsOfNext(q) = ListsOf(q)]_vars
    /\ [][\A p \in PageIds :
             (call[p].pc = "f_del" /\ call'[p].pc # "f_del") =>
                /\ owned[p] = Pow2(ap[p].order) /\ owned'[p] = 0
                /\ alloced_pages[call[p].cpu].lock /\ ~alloced_pages'[call[p].cpu].lock
                /\ \A q \in PageIds : ListsOfNext(q) = ListsOf(q)]_vars
    /\ [][\A c \in CPUs :
             (ListMutated(c) /\ InFlight # {}) =>
                /\ ~alloced_pages[c].lock /\ alloced_pages'[c].lock
                /\ \E p \in InFlight : call'[p].cpu = c /\ call'[p].pc \in {"a_aps", "f_del"}
                                         /\ call[p].pc \in {"a_lock", "f_lock"}]_vars

\* Two FREE_PAGE calls on blocks of one CPU's list are in flight: one has
\* unlinked a block of the higher order and holds that list's lock, which it
\* took with spin_lock and so without leaving its CPU, and the other is at
\* the same lock, so they are not both on the CPU the blocks were allocated
\* on.
C29_Witness ==
    \E p, r \in PageIds :
        /\ call[p].pc = "f_del" /\ ap[p].order = MaxOrder /\ ap[p].aps = call[p].cpu
        /\ r # p /\ call[r].pc = "f_lock" /\ ap[r].aps = call[p].cpu
        /\ ListsOf(r) = {call[p].cpu} /\ ListsOf(p) = {}

\* A step of alloced_pages_free_all: a block leaves a list with no lock taken.
Drained == \E c \in CPUs : ListMutated(c) /\ ~alloced_pages'[c].lock /\ ~alloced_pages[c].lock

\* C30: pab_exit removes the procfs node before it drains any list: when a
\* list is drained the node is gone and no ioctl is in flight, no ioctl
\* starts or is in flight from then on, and when pab_exit has returned every
\* per-CPU list is empty.
C30_ExitOrdering ==
    /\ [][Drained => (~procfs_file /\ modState = "exiting" /\ InFlight = {})]_vars
    /\ [](modState # "loaded" => ~procfs_file)
    /\ [][~procfs_file => (InFlight' \subseteq InFlight /\ ~procfs_file')]_vars
    /\ [][(~procfs_file /\ InFlight = {}) => last' = last]_vars
    /\ [](modState = "unloaded" =>
            /\ InFlight = {}
            /\ \A c \in CPUs : alloced_pages[c].pages = {} /\ ~alloced_pages[c].lock)

\* pab_exit has returned after draining every block the allocator can hand
\* out, all of them still held by user space, one of a higher order.
C30_Witness ==
    /\ modState = "unloaded"
    /\ Cardinality(userIds) = MaxPages
    /\ \E p \in PageIds : owned[p] > 0
    /\ last.cmd = "alloc" /\ last.ret = "0"

\* ============================================================ runCPU, handle by handle
\* The pages of SpecWork are told apart by position only. Here every
\* *kmod.Page AllocPage returns is a new handle, numbered by the call that
\* returned it, so the order of the frees and the handle each FreePage call
\* is given can be read off.

\* A free loop that takes the newest page.
Newest(ps) == ps[Len(ps)]

\* pages[0], the page the free loop passes to freePageOnCPU
Oldest(ps) == Head(ps)

\* `for _, page := range pages` of the deferred function: every page the
\* vector holds when runCPU returns.
DeferredRange(ps, ret) == ps

\* The errnos an ioctl of this worker can return
BurstResults(errnos) == {"0"} \cup (IF burstFaults < MaxFaults THEN errnos ELSE {})

InitU ==
    /\ burstPc = "loop" /\ pages = <<>> /\ target = 0 /\ handles = 0 /\ freeCalls = <<>>
    /\ burstCtxDone = FALSE /\ burstLogged = FALSE /\ burstFaults = 0 /\ burstRet = "running"

InitBurst == InitK /\ InitW /\ OffL /\ OffN /\ OffS /\ OffF /\ OffC /\ OffB /\ InitU /\ OffT /\ OffH

\* runCPU returns e; its deferred function runs if it holds pages.
BurstReturn(e) ==
    /\ burstRet' = e
    /\ burstPc' = ReturnPc(pages)

\* The head of `for ctx.Err() == nil` and the choice of the target.
BurstLoopHead ==
    /\ burstPc = "loop"
    /\ IF burstCtxDone
         THEN BurstReturn("nil") /\ UNCHANGED target
         ELSE /\ \E plus \in BOOLEAN, r \in 0..(RandMod - 1) :
                   LET t == IF plus THEN Middle + r ELSE Middle - r IN
                     /\ target' = t
                     /\ burstPc' = BurstPc(Len(pages), t)
              /\ UNCHANGED burstRet
    /\ UNCHANGED <<pages, handles, freeCalls, burstCtxDone, burstLogged, burstFaults>>
    /\ UNCHANGED notBurst

\* One turn of `for len(pages) < target`: allocPageOnCPU and the append.
BurstAlloc ==
    /\ burstPc = "alloc"
    /\ handles < MaxAllocs \/ burstCtxDone
    /\ \E errno \in BurstResults({"ENOMEM"}) :
         LET err == Ioctl(errno) IN
         /\ burstFaults' = burstFaults + (IF errno = "0" THEN 0 ELSE 1)
         /\ IF errorsIs(err, "ENOMEM")
              THEN UNCHANGED <<burstPc, pages, handles, burstRet>>
              ELSE IF err # Nil
              THEN /\ BurstReturn(IF burstCtxDone THEN "nil" ELSE "allocating page")
                   /\ UNCHANGED <<pages, handles>>
              ELSE /\ handles' = handles + 1
                   /\ pages' = Append(pages, handles + 1)
                   /\ burstPc' = BurstPc(Len(pages) + 1, target)
                   /\ UNCHANGED burstRet
    /\ UNCHANGED <<target, freeCalls, burstCtxDone, burstLogged>>
    /\ UNCHANGED notBurst

\* One turn of `for len(pages) > target`: freePageOnCPU(cpu, pages[0]) and,
\* if it returned nil, pages = pages[1:].
BurstFree ==
    /\ burstPc = "free"
    /\ \E errno \in BurstResults({"EINVAL"}), logged \in {burstLogged, FALSE} :
         LET r == freePageOnCPU(errno, logged, 0) IN
         /\ freeCalls' = Append(freeCalls, Oldest(pages))
         /\ burstFaults' = burstFaults + (IF errno = "0" THEN 0 ELSE 1)
         /\ burstLogged' = (burstLogged \/ r.set)
         /\ IF r.err # Nil
              THEN /\ BurstReturn("freeing page")
                   /\ UNCHANGED pages
              ELSE /\ pages' = Tail(pages)
                   /\ burstPc' = BurstPc(Len(pages) - 1, target)
                   /\ UNCHANGED burstRet
    /\ UNCHANGED <<target, handles, burstCtxDone>>
    /\ UNCHANGED notBurst

\* The deferred function: freePageOnCPU on every page of the vector, in its
\* order, whatever the calls return.
BurstDeferred ==
    /\ burstPc = "defer"
    /\ freeCalls' = freeCalls \o DeferredRange(pages, burstRet)
    /\ \E failed \in BOOLEAN :
         /\ failed => burstFaults < MaxFaults
         /\ burstFaults' = burstFaults + (IF failed THEN 1 ELSE 0)
         /\ burstLogged' = (burstLogged \/ failed)
    \* pages is a local of runCPU and is gone once it has returned
    /\ burstPc' = "done" /\ pages' = <<>>
    /\ UNCHANGED <<target, handles, burstCtxDone, burstRet>>
    /\ UNCHANGED notBurst

\* ctx is cancelled
BurstCancel ==
    /\ ~burstCtxDone /\ burstPc # "done"
    /\ burstCtxDone' = TRUE
    /\ UNCHANGED <<burstPc, pages, target, handles, freeCalls, burstLogged, burstFaults,
                   burstRet>>
    /\ UNCHANGED notBurst

\* Another worker's freePageOnCPU sets the package's freeErrorLogged.
LoggedElsewhere ==
    /\ ~burstLogged /\ burstPc # "done"
    /\ burstLogged' = TRUE
    /\ UNCHANGED <<burstPc, pages, target, handles, freeCalls, burstCtxDone, burstFaults,
                   burstRet>>
    /\ UNCHANGED notBurst

NextBurst ==
    \/ BurstLoopHead
    \/ BurstAlloc
    \/ BurstFree
    \/ BurstDeferred
    \/ BurstCancel
    \/ LoggedElsewhere

SpecBurst == InitBurst /\ [][NextBurst]_vars

\* The handles of a sequence
HandlesOf(q) == {q[i] : i \in 1..Len(q)}

\* C31: every target a burst works towards lies in
\* [Middle - (RandMod - 1), Middle + (RandMod - 1)] (1000 - 999 and 1000 + 999
\* in the code); whenever the worker is at the head of its loop, having
\* completed a burst iteration, its vector holds exactly target handles; the
\* vector never holds more than Middle + (RandMod - 1) handles; and the frees
\* are first in, first out: the vector is in allocation order, the handles
\* passed to FreePage never go back to a newer one's predecessor, nothing the
\* vector holds is older than a handle already passed to FreePage, and every
\* handle AllocPage returned is in the vector or was passed to FreePage.
C31_BurstPattern ==
    /\ burstPc \in {"alloc", "free"} =>
          target \in (Middle - (RandMod - 1))..(Middle + (RandMod - 1))
    /\ burstPc = "loop" => Len(pages) = target
    /\ Len(pages) <= Middle + (RandMod - 1)
    /\ \A i, j \in 1..Len(pages) : i < j => pages[i] < pages[j]
    /\ \A i, j \in 1..Len(freeCalls) : i < j => freeCalls[i] <= freeCalls[j]
    /\ \A h \in HandlesOf(pages), f \in HandlesOf(freeCalls) : f <= h
    /\ burstPc # "off" => HandlesOf(pages) \cup HandlesOf(freeCalls) = 1..handles

\* The worker is back at the head of its loop after a burst that freed down
\* to the lowest target, having held the most pages a target allows.
C31_Witness ==
    /\ burstPc = "loop" /\ target = Middle - (RandMod - 1) /\ Len(pages) = target
    /\ handles >= Middle + (RandMod - 1)
    /\ Len(freeCalls) >= 2 * (RandMod - 1)
    /\ burstRet = "running"

\* C38: no handle is passed to kmod.FreePage twice, in the burst loop and the
\* deferred function together.
C38_NoDoubleFree ==
    \A i, j \in 1..Len(freeCalls) : i # j => freeCalls[i] # freeCalls[j]

\* d + d/2 rounded down, for a natural number d of nanoseconds below 2^64
TimesOneAndAHalf(d) == Add64(d, ShiftRight(d))

SlotsChanged(run) ==
    {k \in DOMAIN reservoir[run].outSamples :
        reservoir'[run].outSamples[k] # reservoir[run].outSamples[k]}

\* The values rand.Int() can return
RandInts == 0..(RandSpan - 1)

\* C33: the Add of the i-th item (i counted from 0) to a reservoir of
\* capacity K. If i < K the item goes to slot i and no other slot changes. If
\* i >= K, some j in 0..i is drawn: the item goes to slot j and no other slot
\* changes when j < K, and nothing changes when j >= K; every j in 0..i is
\* rand.Int() % (i + 1) for some value of rand.Int(). Either way at most one
\* slot changes, the capacity stays K, the other reservoir is untouched, and
\* for K = 0 nothing is ever written.
C33_AlgorithmRStep ==
    [][\A run \in Runs :
          adds'[run] # adds[run] =>
            LET i == adds[run]
                K == Len(reservoir[run].outSamples)
                old == reservoir[run].outSamples
                new == reservoir'[run].outSamples
                item == stream[i + 1]
            IN /\ reservoir[run].numInSamples = i /\ reservoir'[run].numInSamples = i + 1
               /\ Len(new) = K
               /\ i < K => new = [old EXCEPT ![i + 1] = item]
               /\ i >= K =>
                    /\ \E j \in 0..i :
                         /\ j = RandInt(reservoir[run].seed, reservoir[run].draws) % (i + 1)
                         /\ j < K => new = [old EXCEPT ![j + 1] = item]
                         /\ j >= K => new = old
                    /\ \A j \in 0..i : \E v \in RandInts : v % (i + 1) = j
               /\ Cardinality(SlotsChanged(run)) <= 1
               /\ K = 0 => new = <<>>
               /\ \A other \in Runs \ {run} : reservoir'[other] = reservoir[other]]_vars

\* A full reservoir of the largest capacity has taken every item of the
\* stream, has drawn for each item past its capacity, and holds in its last
\* slot an item that was not stored there while it filled.
C33_Witness ==
    \E run \in Runs :
        LET K == Len(reservoir[run].outSamples)
        IN /\ K = MaxCap /\ adds[run] = MaxStream
           /\ reservoir[run].draws = MaxStream - K
           /\ reservoir[run].outSamples[K] # stream[K]

\* The worker Run starts for a CPU index
WorkerOf(cpu) == {w \in Threads : CPUOf(w) = cpu}

\* C34: Add is called on a latency reservoir by the worker of its own CPU
\* index only; Run has its Result, for which it reads Samples() of every
\* reservoir, only when every worker has returned; and from the step in which
\* Run returns no reservoir is written: no reservoir is used by two threads
\* at once.
C34_ReservoirOwnership ==
    /\ [](\A r \in Reservoirs : latencyWriters[r] \subseteq WorkerOf(r[2]))
    /\ [](runRet = "result" => \A w \in Threads : runCPU[w].pc = "done")
    /\ [][runRet' # "running" => latencyWriters' = latencyWriters]_vars

\* Run has returned its Result, and every reservoir of either kind was
\* written by the worker of its CPU index.
C34_Witness ==
    /\ runRet = "result"
    /\ \A r \in Reservoirs : latencyWriters[r] = WorkerOf(r[2]) /\ latencyWriters[r] # {}

\* ============================================================ latency_ns
\* The ioctls that time an allocator call
TimedIoctls == {"PAB_IOCTL_ALLOC_PAGE", "PAB_IOCTL_FREE_PAGE"}

\* ALLOC_PAGE: ktime_to_ns(ktime_sub(ktime_get(), start))
AllocLatencyNs(now, st) == now - st

\* pab_ioctl_free_page: ktime_to_ns(ktime_sub(ktime_get(), start)) + 123
FreeLatencyNs(now, st) == (now - st) + 123

LatencyNs(cmd, now, st) ==
    IF cmd = "PAB_IOCTL_ALLOC_PAGE" THEN AllocLatencyNs(now, st) ELSE FreeLatencyNs(now, st)

InitT ==
    /\ latCmd \in TimedIoctls /\ latPc = "entry" /\ ktime \in 0..1 /\ start = 0 /\ finish = 0
    /\ latency_ns = 0

InitLatency == InitK /\ InitW /\ OffL /\ OffN /\ OffS /\ OffF /\ OffC /\ OffB /\ OffU /\ InitT /\ OffH

\* Time passes.
KtimeAdvance ==
    /\ latPc # "returned" /\ ktime < MaxClock
    /\ ktime' = ktime + 1
    /\ UNCHANGED <<latCmd, latPc, start, finish, latency_ns>>
    /\ UNCHANGED notLatency

\* start = ktime_get()
TakeStart ==
    /\ latPc = "entry"
    /\ start' = ktime
    /\ latPc' = "allocator"
    /\ UNCHANGED <<latCmd, ktime, finish, latency_ns>>
    /\ UNCHANGED notLatency

\* alloc_pages(GFP_KERNEL, order), which may return NULL and the ioctl
\* -ENOMEM with no latency, or __free_pages(page, ap->order)
AllocatorCall ==
    /\ latPc = "allocator"
    /\ \E page \in BOOLEAN :
         latPc' = IF latCmd = "PAB_IOCTL_ALLOC_PAGE" /\ ~page THEN "-ENOMEM" ELSE "timing"
    /\ UNCHANGED <<latCmd, ktime, start, finish, latency_ns>>
    /\ UNCHANGED notLatency

\* The second ktime_get() and the latency_ns computed from it
TakeFinish ==
    /\ latPc = "timing"
    /\ finish' = ktime
    /\ latency_ns' = LatencyNs(latCmd, ktime, start)
    /\ latPc' = "returned"
    /\ UNCHANGED <<latCmd, ktime, start>>
    /\ UNCHANGED notLatency

NextLatency ==
    \/ KtimeAdvance
    \/ TakeStart
    \/ AllocatorCall
    \/ TakeFinish

SpecLatency == InitLatency /\ [][NextLatency]_vars

\* C35: the latency_ns an ALLOC_PAGE or a FREE_PAGE reports is the reading
\* of the monotonic clock taken after the allocator call minus the reading
\* taken before it, and nothing else.
C35_LatencyIsDifference ==
    latPc = "returned" => latency_ns = finish - start

\* A worker is in its allocation loop and the module is given no more
\* ALLOC_PAGE calls to answer (the bound of the check).
BlockedAtCap ==
    \E w \in Threads : runCPU[w].pc = "alloc" /\ stats.pagesAllocated >= MaxAllocs /\ ~egCancelled

\* Every worker has held exactly Middle pages, the channel is closed and
\* AwaitSteadyState has returned.
SteadyAndAwaited ==
    /\ \A w \in Threads : everMiddle[w]
    /\ steadyStateReached
    /\ awaitRet # "waiting"

\* Before every worker has held Middle pages: the context is cancelled, a
\* worker has returned an error, or an allocation is never answered.
SteadyPrevented ==
    /\ \E w \in Threads : ~everMiddle[w]
    /\ \/ ctxCancelled \/ egCancelled
       \/ \E w \in Threads : runCPU[w].err # "nil"
       \/ BlockedAtCap

\* C36: unless the context is cancelled or a worker returns an error before
\* then (or the check's bound on allocations stops a worker), every worker
\* eventually holds exactly Middle pages, the steady-state channel is
\* eventually closed and AwaitSteadyState eventually returns.
C36_SteadyStateLiveness == <>(SteadyAndAwaited \/ SteadyPrevented)

\* AwaitSteadyState has returned by the closed channel in a run with no
\* cancellation and no failed call, every worker having held Middle pages.
C36_Witness ==
    /\ SteadyAndAwaited /\ awaitRet = "steadyStateReached"
    /\ ~ctxCancelled /\ egErr = "nil" /\ ioctlFailed = 0 /\ pinFailed = 0
    /\ \A w \in Threads : runCPU[w].steady /\ runCPU[w].err = "nil"

\* The workers whose steady flag is set
SteadyWorkers == {w \in Threads : runCPU[w].steady}

\* A step in which a worker's steadyStateThreads.Add(1) returns at least
\* numThreads: the worker calls close(w.steadyStateReached).
ClosesChannel ==
    steadyStateThreads' # steadyStateThreads /\ steadyStateThreads' >= NumThreads

\* C37: each worker adds to steadyStateThreads at most once (the step that
\* sets its steady flag, which is never cleared), the counter is the number
\* of workers that did and never exceeds numThreads, and
\* close(steadyStateReached) is called in at most one step, by the worker
\* whose Add makes the counter numThreads, on a channel that is still open.
C37_SignalledOnce ==
    /\ [](steadyStateThreads = Cardinality(SteadyWorkers) /\ steadyStateThreads <= NumThreads)
    /\ [](steadyStateReached <=> steadyStateThreads = NumThreads)
    /\ [][\A w \in Threads : runCPU[w].steady => runCPU'[w].steady]_vars
    /\ [][steadyStateThreads' # steadyStateThreads =>
             /\ steadyStateThreads' = steadyStateThreads + 1
             /\ \E w \in Threads : SteadyWorkers' = SteadyWorkers \cup {w} /\ w \notin SteadyWorkers]_vars
    /\ [][ClosesChannel => (~steadyStateReached /\ steadyStateReached')]_vars
    /\ [][steadyStateReached' # steadyStateReached => ClosesChannel]_vars

\* The channel is closed, and a worker that had counted itself has freed
\* down below Middle pages and allocated up to Middle again.
C37_Witness ==
    /\ steadyStateReached /\ steadyStateThreads = NumThreads
    /\ stats.pagesAllocated > NumThreads * Middle /\ stats.pagesFreed >= 1
    /\ \A w \in Threads : Len(runCPU[w].pages) >= Middle /\ runCPU[w].steady

\* C39: every value in IdleAvailableBytes and AntagonizedAvailableBytes is
\* the count of a child that ran until the OOM killer stopped it; no value
\* is the count of a child that was killed because its context was done.
C39_OnlyOomMeasurements ==
    \A v \in HandlesOf(compResult.IdleAvailableBytes)
             \cup HandlesOf(compResult.AntagonizedAvailableBytes) : v = "bytes"

\* ------------------------------------------------- the findlimit child
\* const mmapSize = 8 * pab.Gigabyte, scaled down; a multiple of the page size
mmapSize == (2 ^ MmapShift) * pageSize

\* The pages of a mapped region
RegionPages == 0 .. (mmapSize \div pageSize) - 1

RECURSIVE Len64(_)
\* bits.Len64
Len64(x) == IF x = 0 THEN 0 ELSE 1 + Len64(x \div 2)

\* bits.LeadingZeros64
LeadingZeros64(x) == 64 - Len64(x)

\* goros := 1 << (63 - bits.LeadingZeros64(uint64(runtime.NumCPU())))
goros == 2 ^ (63 - LeadingZeros64(numCPU))

\* chunkSize := mmapSize.Bytes() / int64(goros)
chunkSize == mmapSize \div goros

AtomicAddTwice(v, delta) == v + 2 * delta

\* atomic.Int64.Add. (The counter counts bytes of memory of one machine, so
\* it stays far from the 64-bit limit.)
AtomicAdd(v, delta) == v + delta

\* The page of the region that holds byte i of data
PageOf(i) == i \div pageSize

\* doMain has written oom_score_adj and started the printing goroutine, and
\* is about to map the first region.
InitH ==
    /\ childPc = "mmap" /\ numCPU \in 1 .. NumCPUs + 1 /\ data = <<>> /\ added = <<>>
    /\ faulters = <<>> /\ chunkStart = 0 /\ wg = 0 /\ allocedBytes = 0
    /\ printerPc = "load" /\ loaded = 0 /\ printed = 0 /\ touched = 0 /\ maps = 0

InitChild == InitK /\ InitW /\ OffL /\ OffN /\ OffS /\ OffF /\ OffC /\ OffB /\ OffU /\ OffT /\ InitH

\* data, err := mmap(...): a fresh region, no page of it touched; the
\* spawning loop starts at chunkStart 0. The goroutines of the region before
\* have all returned (wg.Wait).
ChildMmap ==
    /\ childPc = "mmap" /\ maps < MaxMaps
    /\ data' = [p \in RegionPages |-> 0]
    /\ added' = [p \in RegionPages |-> 0]
    /\ faulters' = <<>>
    /\ chunkStart' = 0
    /\ maps' = maps + 1
    /\ childPc' = "spawn"
    /\ UNCHANGED <<numCPU, wg, allocedBytes, printerPc, loaded, printed, touched>>
    /\ UNCHANGED notChild

\* mmap fails: log.Fatalf ends the process, the printing goroutine with it.
ChildMmapFails ==
    /\ childPc = "mmap"
    /\ childPc' = "stopped" /\ printerPc' = "off"
    /\ UNCHANGED <<numCPU, data, added, faulters, chunkStart, wg, allocedBytes, loaded,
                   printed, touched, maps>>
    /\ UNCHANGED notChild

\* One pass of `for chunkStart := int64(0); chunkStart < mmapSize.Bytes();
\* chunkStart += chunkSize`: wg.Add(1) and a goroutine with its own copy of
\* chunkStart; after the last pass doMain goes to wg.Wait().
ChildSpawn ==
    /\ childPc = "spawn"
    /\ IF chunkStart < mmapSize
       THEN /\ wg' = wg + 1
            /\ faulters' = faulters @@ (chunkStart :> [offset |-> 0, pc |-> "write"])
            /\ chunkStart' = chunkStart + chunkSize
            /\ UNCHANGED childPc
       ELSE /\ childPc' = "wait"
            /\ UNCHANGED <<wg, faulters, chunkStart>>
    /\ UNCHANGED <<numCPU, data, added, allocedBytes, printerPc, loaded, printed, touched,
                   maps>>
    /\ UNCHANGED notChild

\* A faulting goroutine: data[chunkStart+offset] = 0
FaulterWrite(c) ==
    /\ childPc \in {"spawn", "wait"}
    /\ c \in DOMAIN faulters /\ faulters[c].pc = "write"
    /\ LET p == PageOf(c + faulters[c].offset)
       IN /\ p \in DOMAIN data
          /\ data' = [data EXCEPT ![p] = @ + 1]
          /\ touched' = touched + (IF data[p] = 0 THEN pageSize ELSE 0)
    /\ faulters' = [faulters EXCEPT ![c].pc = "add"]
    /\ UNCHANGED <<childPc, numCPU, added, chunkStart, wg, allocedBytes, printerPc, loaded,
                   printed, maps>>
    /\ UNCHANGED notChild

\* A faulting goroutine: allocedBytes.Add(int64(pageSize)), offset += pageSize
\* and the loop's test; wg.Done() when the chunk is finished.
FaulterAdd(c) ==
    /\ childPc \in {"spawn", "wait"}
    /\ c \in DOMAIN faulters /\ faulters[c].pc = "add"
    /\ allocedBytes' = AtomicAdd(allocedBytes, pageSize)
    /\ added' = [added EXCEPT ![PageOf(c + faulters[c].offset)] = @ + 1]
    /\ LET next == faulters[c].offset + pageSize
       IN IF next < chunkSize
          THEN /\ faulters' = [faulters EXCEPT ![c] = [offset |-> next, pc |-> "write"]]
               /\ UNCHANGED wg
          ELSE /\ faulters' = [faulters EXCEPT ![c] = [offset |-> next, pc |-> "done"]]
               /\ wg' = wg - 1
    /\ UNCHANGED <<childPc, numCPU, data, chunkStart, printerPc, loaded, printed, touched,
                   maps>>
    /\ UNCHANGED notChild

\* wg.Wait() returns and the outer loop goes round.
ChildWait ==
    /\ childPc = "wait" /\ wg = 0
    /\ childPc' = "mmap"
    /\ UNCHANGED <<numCPU, data, added, faulters, chunkStart, wg, allocedBytes, printerPc,
                   loaded, printed, touched, maps>>
    /\ UNCHANGED notChild

\* The printing goroutine: allocedBytes.Load()
PrinterLoad ==
    /\ printerPc = "load"
    /\ loaded' = allocedBytes
    /\ printerPc' = "print"
    /\ UNCHANGED <<childPc, numCPU, data, added, faulters, chunkStart, wg, allocedBytes,
                   printed, touched, maps>>
    /\ UNCHANGED notChild

\* The printing goroutine: fmt.Printf("%d\n", ...) of the value loaded
PrinterPrint ==
    /\ printerPc = "print"
    /\ printed' = loaded
    /\ printerPc' = "load"
    /\ UNCHANGED <<childPc, numCPU, data, added, faulters, chunkStart, wg, allocedBytes,
                   loaded, touched, maps>>
    /\ UNCHANGED notChild

\* The OOM killer (or the parent's context) kills the child.
ChildKilled ==
    /\ childPc \in {"mmap", "spawn", "wait"}
    /\ childPc' = "stopped" /\ printerPc' = "off"
    /\ UNCHANGED <<numCPU, data, added, faulters, chunkStart, wg, allocedBytes, loaded,
                   printed, touched, maps>>
    /\ UNCHANGED notChild

NextChild ==
    \/ ChildMmap
    \/ ChildMmapFails
    \/ ChildSpawn
    \/ \E c \in 0 .. mmapSize - 1 : FaulterWrite(c)
    \/ \E c \in 0 .. mmapSize - 1 : FaulterAdd(c)
    \/ ChildWait
    \/ PrinterLoad
    \/ PrinterPrint
    \/ ChildKilled

SpecChild == InitChild /\ [][NextChild]_vars

\* The chunks of the goroutines started are disjoint and cover the region:
\* every byte of it is in exactly one chunk.
ChunksPartition ==
    \A b \in 0 .. mmapSize - 1 :
        Cardinality({c \in DOMAIN faulters : c <= b /\ b < c + chunkSize}) = 1

\* C40: in the findlimit child the totals printed never decrease; a total
\* printed is at most the bytes of the pages the faulting goroutines had
\* written when it was printed (the Add follows the write); when wg.Wait()
\* returns the chunks partition the region and every page of it has been
\* written once and counted once.
C40_ChildTotals ==
    [][/\ printed' >= printed
       /\ printed' <= touched'
       /\ allocedBytes' <= touched'
       /\ \A p \in DOMAIN data' : data'[p] <= 1 /\ added'[p] <= data'[p]
       /\ (childPc = "wait" /\ childPc' = "mmap")
              => /\ ChunksPartition
                 /\ \A p \in RegionPages : data[p] = 1 /\ added[p] = 1
                 /\ allocedBytes = maps * mmapSize]_vars

\* In the second region two goroutines are at work, one between its write
\* and its Add, and the total printed last is of the second region and behind
\* the bytes touched.
C40_Witness ==
    /\ maps = MaxMaps /\ printed > mmapSize /\ printed < touched
    /\ printerPc = "print" /\ loaded > printed
    /\ Cardinality(DOMAIN faulters) > 1
    /\ \E c \in DOMAIN faulters : faulters[c].pc = "add"
====
